---- MODULE Spec2Model ----
(***************************************************************************)
(* A model of sample_data/realtime_simulation/data_loader.py:              *)
(*   TickDataLoader  - windowed tick cache over a SQLite table or a        *)
(*                     directory of chunked CSV files, with the            *)
(*                     stream_ticks generator;                             *)
(*   OHLCBuilder     - the growing-candle aggregator.                      *)
(* Time is counted in whole seconds. A tick row keeps the columns the      *)
(* code reads (timestamp, price, volume); bid, ask, spread and session     *)
(* are payload that no branch of the code looks at.                        *)
(* An optional value (Python None / a value) is a sequence of length 0     *)
(* or 1.                                                                   *)
(***************************************************************************)
EXTENDS Integers, Sequences, FiniteSets, TLC

VARIABLES
    csv_dir,            \* self.csv_dir: "dir" (the chunk directory), "missing" (no such path) or "none"
    metadata,           \* the database's metadata table: whether it exists and the keys it holds
    manifest,           \* whether the chunk directory holds manifest.csv
    ohlc_tables,        \* the tables ohlc_1s, ohlc_1m, ohlc_5m of the database: "absent", "empty" or "filled"
    data_start,         \* self._data_start (optional)
    data_end,           \* self._data_end (optional)
    total_records,      \* self._total_records
    db_path,            \* self.db_path: "db" (the database file), "missing" (no such path) or "none"
    table,              \* rows of the SQLite table tick_data, in rowid order
    chunks,             \* the CSV chunk files: a sequence of row sequences
    cache_size,         \* self.cache_size
    cache,              \* self._cache: the rows of the frame
    cache_cols,         \* whether self._cache has columns (pd.DataFrame() has none)
    cache_start,        \* self._cache_start (optional)
    cache_end,          \* self._cache_end (optional)
    op,                 \* the last loader operation and its arguments
    ret,                \* what the last loader operation returned
    exc,                \* the exception the last loader operation raised ("none" if it returned)
    reads,              \* the store reads (_load_cache ranges, SQL queries) of the last operation
    chunks_read,        \* the chunk files read by the last operation
    gen,                \* the stream_ticks generator frame
    yielded,            \* the batches the generator has yielded so far, oldest first
    cursors,            \* the value of `current` at each refill of the generator so far
    tf_seconds,         \* OHLCBuilder._timeframe_seconds
    current_candle,     \* OHLCBuilder._current_candle (optional)
    current_candle_start, \* OHLCBuilder._current_candle_start (optional)
    completed_candles,  \* OHLCBuilder._completed_candles
    b_ret,              \* the completed candle returned by the last add_tick (optional)
    snapshot,           \* the frame of the last get_candles call; in the app, st.session_state.candles
    ingested,           \* the ticks passed to add_tick by the modelled calls, oldest first
    b_op,               \* the last builder call: name, arguments, sealed bars held before it
    start_ret,          \* the value returned by the last direct _get_candle_start call (optional)
    session_state,      \* st.session_state of the playback app (the fields the playback uses)
    run                 \* the script run in progress: its next assignment and its locals

setupVars == <<csv_dir, metadata, manifest, ohlc_tables, data_start, data_end, total_records>>
loaderVars == <<setupVars, db_path, table, chunks, cache_size, cache, cache_cols, cache_start, cache_end,
                op, ret, exc, reads, chunks_read, gen, yielded, cursors>>
builderVars == <<tf_seconds, current_candle, current_candle_start, completed_candles,
                 b_ret, snapshot, ingested, b_op, start_ret>>
appVars == <<session_state, run>>
vars == <<loaderVars, builderVars, appVars>>

----------------------------------------------------------------------------
(* Bounds of the model. *)
MaxTicks == 3
MaxCacheSize == 2
MaxIngest == 4
MaxBatch == 2

(* Program constants. *)
LookBack == 1800
LookAhead == 7200
BufferDuration == 3600
OneSecond == 1
max_candles == 500
DaySeconds == 24 * 3600

None == << >>
Some(x) == << x >>

(* Inputs. *)
TickTimes == {0, 1, 1800, 3700}
TickPrices == {100, 101}
QueryTimes == {-1, 0, 1, 1800, 3700, 5501}
Ranges == {<<0, 0>>, <<0, 1800>>, <<0, 3700>>, <<1800, 3700>>, <<3700, 3700>>, <<1800, 0>>}
Limits == {0, 1, 2}
CacheSizes == 1 .. MaxCacheSize

Row(t, p) == [timestamp |-> t, price |-> p, volume |-> 10]

Min2(a, b) == IF a <= b THEN a ELSE b
Max2(a, b) == IF a >= b THEN a ELSE b

RECURSIVE Flatten(_)
Flatten(ss) == IF ss = << >> THEN << >> ELSE Head(ss) \o Flatten(Tail(ss))

Head_(s, n) == SubSeq(s, 1, Min2(n, Len(s)))

IsSorted(s) == \A i \in 1 .. Len(s) - 1 : s[i].timestamp <= s[i + 1].timestamp

SeqMin(s) == CHOOSE m \in {s[i].timestamp : i \in 1 .. Len(s)} :
                 \A i \in 1 .. Len(s) : m <= s[i].timestamp
SeqMax(s) == CHOOSE m \in {s[i].timestamp : i \in 1 .. Len(s)} :
                 \A i \in 1 .. Len(s) : m >= s[i].timestamp

InRange_EndExclusive(s, start, end) ==
    SelectSeq(s, LAMBDA r : r.timestamp >= start /\ r.timestamp < end)

InRange_NoLowerBound(s, start, end) == SelectSeq(s, LAMBDA r : r.timestamp <= end)

InRange(s, start, end) == SelectSeq(s, LAMBDA r : r.timestamp >= start /\ r.timestamp <= end)

(* An optional timestamp as pandas holds it: None, NaT (the minimum or maximum  *)
(* of an empty column) or a timestamp.                                      *)
NoneTS == [kind |-> "None", v |-> 0]
NaT == [kind |-> "NaT", v |-> 0]
TS(t) == [kind |-> "ts", v |-> t]

(* Series.min() / Series.max() of the timestamp column. *)
ColMin(s) == IF s = << >> THEN NaT ELSE TS(SeqMin(s))
ColMax(s) == IF s = << >> THEN NaT ELSE TS(SeqMax(s))

(* timestamp < x and timestamp > x for an optional x: every comparison with *)
(* NaT is false.                                                            *)
LessThan(t, x) == x.kind = "ts" /\ t < x.v
GreaterThan(t, x) == x.kind = "ts" /\ t > x.v

(* ORDER BY timestamp over the table: rows with equal timestamps stay in    *)
(* rowid order.                                                             *)
RECURSIVE InsertByTime(_, _)
InsertByTime(r, s) ==
    IF s = << >> THEN << r >>
    ELSE IF Head(s).timestamp <= r.timestamp THEN << Head(s) >> \o InsertByTime(r, Tail(s))
    ELSE << r >> \o s

RECURSIVE OrderByTimestamp(_)
OrderByTimestamp(s) ==
    IF IsSorted(s) THEN s
    ELSE InsertByTime(s[Len(s)], OrderByTimestamp(SubSeq(s, 1, Len(s) - 1)))

(* DataFrame.sort_values('timestamp') with the default (unstable) sort:     *)
(* every arrangement of the rows that is ascending by timestamp.            *)
(* (Rows already in strictly ascending order have one such arrangement.)    *)
SortValues(s) ==
    IF \A i \in 1 .. Len(s) - 1 : s[i].timestamp < s[i + 1].timestamp THEN {s}
    ELSE {[i \in 1 .. Len(s) |-> s[f[i]]] : f \in
            {g \in Permutations(1 .. Len(s)) :
                \A i \in 1 .. Len(s) - 1 : s[g[i]].timestamp <= s[g[i + 1]].timestamp}}

----------------------------------------------------------------------------
(* The chunk index (_init_csv): one descriptor per chunk file. *)
ChunkStart(c) == c[1].timestamp
ChunkEnd(c) == c[Len(c)].timestamp

(* The chunks _load_cache_csv selects for [start, end], as indices into _chunks. *)
(* Mutant: the overlap test with strict comparisons. *)
Overlaps_Strict(c, start, end) == ChunkStart(c) < end /\ ChunkEnd(c) > start

Overlaps(c, start, end) == ChunkStart(c) <= end /\ ChunkEnd(c) >= start
RelevantChunks(start, end) == {i \in 1 .. Len(chunks) : Overlaps(chunks[i], start, end)}

(* pd.concat of the selected chunks, each filtered to [start, end]. *)
RECURSIVE ConcatFiltered(_, _, _, _)
ConcatFiltered(i, rel, start, end) ==
    IF i > Len(chunks) THEN << >>
    ELSE (IF i \in rel THEN InRange(chunks[i], start, end) ELSE << >>)
         \o ConcatFiltered(i + 1, rel, start, end)

(* The SQL query of _load_cache_sqlite and get_ticks_range; lim = 0 is no LIMIT. *)
SqlQueryOn(tbl, start, end, lim) ==
    LET rows == OrderByTimestamp(InRange(tbl, start, end))
    IN  IF lim = 0 THEN rows ELSE Head_(rows, lim)

SqlQuery(start, end, lim) == SqlQueryOn(table, start, end, lim)

(* The window a cache load leaves: _cache (rows, and whether the frame has   *)
(* columns), _cache_start, _cache_end.                                      *)
Window(c, k, s, e) == [cache |-> c, cols |-> k, cache_start |-> s, cache_end |-> e]
CurrentWindow == Window(cache, cache_cols, cache_start, cache_end)

(* Mutant: the query without its LIMIT. *)
LoadCacheSqlite_NoLimit(start, end) ==
    LET c == SqlQuery(start, end, 0)
    IN  IF c # << >> THEN {Window(c, TRUE, ColMin(c), ColMax(c))}
        ELSE {Window(c, TRUE, cache_start, cache_end)}

LoadCacheSqlite(start, end) ==
    LET c == SqlQuery(start, end, cache_size)
    IN  IF c # << >> THEN {Window(c, TRUE, ColMin(c), ColMax(c))}
        ELSE {Window(c, TRUE, cache_start, cache_end)}

(* Mutant: the bounds taken before the truncation to cache_size. *)
LoadCacheCsv_BoundsBeforeHead(start, end) ==
    LET rel == RelevantChunks(start, end)
    IN  IF rel = {} THEN {Window(<< >>, FALSE, cache_start, cache_end)}
        ELSE {Window(Head_(c, cache_size), TRUE, ColMin(c), ColMax(c)) :
                 c \in SortValues(ConcatFiltered(1, rel, start, end))}

(* Mutant: the loaded rows appended to the window instead of replacing it. *)
LoadCacheCsv_Extend(start, end) ==
    LET rel == RelevantChunks(start, end)
    IN  IF rel = {} THEN {Window(cache, cache_cols, cache_start, cache_end)}
        ELSE {Window(Head_(cache \o c, cache_size), TRUE,
                     ColMin(Head_(cache \o c, cache_size)), ColMax(Head_(cache \o c, cache_size))) :
                 c \in SortValues(ConcatFiltered(1, rel, start, end))}

LoadCacheCsv(start, end) ==
    LET rel == RelevantChunks(start, end)
    IN  IF rel = {} THEN {Window(<< >>, FALSE, cache_start, cache_end)}
        ELSE {Window(Head_(c, cache_size), TRUE,
                     ColMin(Head_(c, cache_size)), ColMax(Head_(c, cache_size))) :
                 c \in SortValues(ConcatFiltered(1, rel, start, end))}

UsesSqlite == db_path # "none"

LoadCache(start, end) ==
    IF UsesSqlite THEN LoadCacheSqlite(start, end) ELSE LoadCacheCsv(start, end)

(* The chunk files a load opens. *)
LoadChunksRead(start, end) == IF UsesSqlite THEN {} ELSE RelevantChunks(start, end)

(* get_tick_at: the coverage test and the lookup in the window. *)
(* Mutant: a reload also when t is on the edge of the window. *)
NeedsReload_Strict(t) ==
    cache = << >> \/ ~GreaterThan(t, cache_start) \/ ~LessThan(t, cache_end)

NeedsReload(t) == cache = << >> \/ LessThan(t, cache_start) \/ GreaterThan(t, cache_end)

(* Mutant: the first row at or before t instead of the last. *)
TickAtOrBefore_First(c, t) ==
    LET mask == SelectSeq(c, LAMBDA r : r.timestamp <= t)
    IN  IF c = << >> THEN None
        ELSE IF mask = << >> THEN None
        ELSE Some(mask[1])

(* Mutant: the earliest cached row when no row is at or before t. *)
TickAtOrBefore_Nearest(c, t) ==
    LET mask == SelectSeq(c, LAMBDA r : r.timestamp <= t)
    IN  IF c = << >> THEN None
        ELSE IF mask = << >> THEN Some(c[1])
        ELSE Some(mask[Len(mask)])

TickAtOrBefore(c, t) ==
    LET mask == SelectSeq(c, LAMBDA r : r.timestamp <= t)
    IN  IF c = << >> THEN None
        ELSE IF mask = << >> THEN None
        ELSE Some(mask[Len(mask)])

Call(name, a, b, l) == [name |-> name, start |-> a, end |-> b, limit |-> l]
BCall(name, include_current, timestamp, held) ==
    [name |-> name, include_current |-> include_current, timestamp |-> timestamp, held |-> held]

(* st.session_state: current_timestamp, selected_start_time and             *)
(* selected_end_time are optional timestamps, playback_speed is the slider's *)
(* whole number of seconds per update, timeframe a string such as '1m'.     *)
SessionState(current, is_playing, playback_speed, timeframe, selected_start, selected_end) ==
    [current_timestamp |-> current, is_playing |-> is_playing,
     playback_speed |-> playback_speed, timeframe |-> timeframe,
     selected_start_time |-> selected_start, selected_end_time |-> selected_end]

(* init_session_state: the defaults, no data loaded. *)
IdleRun == [pc |-> "idle", tick |-> None, end_arg |-> NoneTS, tf_arg |-> <<1, "m">>,
            refresh |-> FALSE]

AppIdle ==
    /\ session_state = SessionState(NoneTS, FALSE, 1, <<1, "m">>, NoneTS, NoneTS)
    /\ run = IdleRun

(* The frame of the stream_ticks generator: where it is suspended and its   *)
(* locals (start, end, batch_size; current; the for loop's index i and the *)
(* length n its range was built from; the maximum timestamp of the batch   *)
(* it yielded last).                                                       *)
Frame(pc, start, end, bs, current, i, n, bmax) ==
    [pc |-> pc, start |-> start, end |-> end, bs |-> bs, current |-> current,
     i |-> i, n |-> n, bmax |-> bmax]

GeneratorIdle == Frame("none", 0, NoneTS, 1, NoneTS, 0, 0, NoneTS)

SetWindow(w) ==
    /\ cache' = w.cache
    /\ cache_cols' = w.cols
    /\ cache_start' = w.cache_start
    /\ cache_end' = w.cache_end

get_tick_at(t) ==
    /\ \E w \in (IF NeedsReload(t) THEN LoadCache(t - LookBack, t + LookAhead)
                 ELSE {CurrentWindow}) :
          /\ SetWindow(w)
          /\ ret' = TickAtOrBefore(w.cache, t)
    /\ reads' = IF NeedsReload(t) THEN << <<t - LookBack, t + LookAhead>> >> ELSE << >>
    /\ chunks_read' = IF NeedsReload(t) THEN LoadChunksRead(t - LookBack, t + LookAhead) ELSE {}
    /\ op' = Call("get_tick_at", t, t, 0)
    /\ exc' = "none"
    /\ UNCHANGED <<setupVars, db_path, table, chunks, cache_size, gen, yielded, cursors, builderVars, appVars>>

(* get_ticks_range; limit = 0 stands for None (both are falsy). On the CSV   *)
(* path self._cache['timestamp'] raises KeyError when the load left a frame *)
(* without columns.                                                         *)
get_ticks_range(start, end, limit) ==
    /\ IF UsesSqlite
       THEN /\ ret' = SqlQuery(start, end, limit)
            /\ exc' = "none"
            /\ UNCHANGED <<cache, cache_cols, cache_start, cache_end>>
       ELSE \E w \in LoadCache(start, end) :
               /\ SetWindow(w)
               /\ IF w.cols
                  THEN /\ ret' = LET df == InRange(w.cache, start, end)
                                 IN  IF limit # 0 THEN Head_(df, limit) ELSE df
                       /\ exc' = "none"
                  ELSE /\ ret' = None
                       /\ exc' = "KeyError"
    /\ chunks_read' = LoadChunksRead(start, end)
    /\ reads' = << <<start, end>> >>
    /\ op' = Call("get_ticks_range", start, end, limit)
    /\ UNCHANGED <<setupVars, db_path, table, chunks, cache_size, gen, yielded, cursors, builderVars, appVars>>

----------------------------------------------------------------------------
(* stream_ticks *)

(* self._data_end *)
DataEnd == data_end

PlusOneSecond_Stuck(x) == x

PlusOneSecond(x) == IF x.kind = "ts" THEN TS(x.v + OneSecond) ELSE x

(* What resuming the generator leaves: its frame, the window, the batch it   *)
(* yields (or the exception that ends it) and the store reads it made.       *)
Outcome(g, w, r, x, rd, cr) ==
    [gen |-> g, window |-> w, ret |-> r, exc |-> x, reads |-> rd, chunks_read |-> cr]

Finished(g) == [g EXCEPT !.pc = "done"]

(* One iteration of the for loop at index i (i < n): lines 389-395. The      *)
(* frame of a query that returned no row keeps the timestamp column as       *)
(* read_sql gave it (lines 212-213 convert a frame with rows only): the      *)
(* maximum of that column is nan, and its comparison with end raises         *)
(* TypeError.                                                                *)
ForBody(g, i, w, rd, cr) ==
    LET batch == SubSeq(w.cache, i + 1, Min2(i + g.bs, Len(w.cache)))
        bmax == ColMax(batch)
        clipped == SelectSeq(batch, LAMBDA r : r.timestamp <= g.end.v)
    IN  IF ~w.cols THEN Outcome(Finished(g), w, None, "KeyError", rd, cr)
        ELSE IF w.cache = << >> /\ UsesSqlite
        THEN Outcome(Finished(g), w, None, "TypeError", rd, cr)
        ELSE IF GreaterThan(bmax.v, g.end) /\ bmax.kind = "ts"
        THEN IF clipped # << >>
             THEN Outcome([g EXCEPT !.pc = "yield_clip", !.i = i], w, clipped, "none", rd, cr)
             ELSE Outcome(Finished(g), w, None, "StopIteration", rd, cr)
        ELSE Outcome([g EXCEPT !.pc = "yield", !.i = i, !.bmax = bmax], w, batch, "none", rd, cr)

(* The while loop from its test: lines 379-388. *)
(* (Variant: an empty refill skips to the next hour instead of ending.) *)
WhileLoop_SkipHole(g) ==
    IF g.end.kind = "None"
    THEN {Outcome(Finished(g), CurrentWindow, None, "TypeError", << >>, {})}
    ELSE IF g.current.kind = "ts" /\ LessThan(g.current.v, g.end)
    THEN LET buffer_end == Min2(g.current.v + BufferDuration, g.end.v)
         IN  {IF w.cache = << >>
              THEN Outcome([g EXCEPT !.pc = "created", !.start = buffer_end + OneSecond], w, None,
                           "none", << <<g.current.v, buffer_end>> >>,
                           LoadChunksRead(g.current.v, buffer_end))
              ELSE ForBody([g EXCEPT !.n = Len(w.cache)], 0, w,
                           << <<g.current.v, buffer_end>> >>,
                           LoadChunksRead(g.current.v, buffer_end)) :
              w \in LoadCache(g.current.v, buffer_end)}
    ELSE {Outcome(Finished(g), CurrentWindow, None, "StopIteration", << >>, {})}

WhileLoop(g) ==
    IF g.end.kind = "None"
    THEN {Outcome(Finished(g), CurrentWindow, None, "TypeError", << >>, {})}
    ELSE IF g.current.kind = "ts" /\ LessThan(g.current.v, g.end)
    THEN LET buffer_end == Min2(g.current.v + BufferDuration, g.end.v)
         IN  {IF w.cache = << >>
              THEN Outcome(Finished(g), w, None, "StopIteration",
                           << <<g.current.v, buffer_end>> >>, LoadChunksRead(g.current.v, buffer_end))
              ELSE ForBody([g EXCEPT !.n = Len(w.cache)], 0, w,
                           << <<g.current.v, buffer_end>> >>, LoadChunksRead(g.current.v, buffer_end)) :
              w \in LoadCache(g.current.v, buffer_end)}
    ELSE {Outcome(Finished(g), CurrentWindow, None, "StopIteration", << >>, {})}

(* Resuming the generator: from its creation, or after the yield it is       *)
(* suspended at.                                                            *)
(* The body reads self._cache and self._cache_end as they are when it runs: *)
(* w is the loader's window at the time of the request.                     *)
ResumeIn(g, w) ==
    IF g.pc = "created"
    THEN WhileLoop([g EXCEPT !.end = IF g.end.kind = "None" THEN DataEnd ELSE g.end,
                             !.current = TS(g.start)])
    ELSE IF g.pc = "yield_clip"
    THEN {Outcome(Finished(g), w, None, "StopIteration", << >>, {})}
    ELSE LET g1 == [g EXCEPT !.current = PlusOneSecond(g.bmax)]
         IN  IF g.i + g.bs < g.n
             THEN {ForBody(g1, g.i + g.bs, w, << >>, {})}
             ELSE IF w.cache_end.kind = "None"
             THEN {Outcome(Finished(g1), w, None, "TypeError", << >>, {})}
             ELSE WhileLoop([g1 EXCEPT !.current = PlusOneSecond(w.cache_end)])

Resume(g) == ResumeIn(g, CurrentWindow)

(* stream_ticks(start, end, batch_size): creates the generator; no line of   *)
(* its body runs before the first request.                                  *)
stream_ticks(start, end, batch_size) ==
    /\ gen' = Frame("created", start, end, batch_size, NoneTS, 0, 0, NoneTS)
    /\ yielded' = << >>
    /\ cursors' = << >>
    /\ op' = Call("stream_ticks", start, end.v, batch_size)
    /\ ret' = None
    /\ exc' = "none"
    /\ reads' = << >>
    /\ chunks_read' = {}
    /\ UNCHANGED <<setupVars, db_path, table, chunks, cache_size, cache, cache_cols, cache_start,
                   cache_end, builderVars, appVars>>

(* next(generator): runs the body up to its next yield or its end. *)
(* All ticks of the store, in stored order. *)
StoreRows == IF UsesSqlite THEN table ELSE Flatten(chunks)

(* An interleaved consumer can make the generator yield without end; the    *)
(* history kept for the properties is capped. An uninterrupted stream yields *)
(* at most one batch per stored tick and is never cut short by the cap.      *)
MaxYields == Len(StoreRows)

stream_next ==
    /\ Len(yielded) <= MaxYields
    /\ gen.pc \in {"created", "yield", "yield_clip"}
    /\ \E o \in Resume(gen) :
          /\ gen' = o.gen
          /\ SetWindow(o.window)
          /\ ret' = o.ret
          /\ exc' = o.exc
          /\ reads' = o.reads
          /\ chunks_read' = o.chunks_read
          /\ yielded' = IF o.exc = "none" THEN Append(yielded, o.ret) ELSE yielded
          /\ cursors' = IF o.reads # << >> THEN Append(cursors, o.reads[1][1]) ELSE cursors
    /\ op' = Call("stream_next", 0, 0, 0)
    /\ UNCHANGED <<setupVars, db_path, table, chunks, cache_size, builderVars, appVars>>

----------------------------------------------------------------------------
(* The same operations when a store read (pd.read_sql, pd.read_csv) raises. *)

(* A load for [start, end] reads the store: always on SQLite, and on CSV     *)
(* when a chunk overlaps the range.                                         *)
LoadReadsStore(start, end) == UsesSqlite \/ RelevantChunks(start, end) # {}

(* The chunk files read before the failing one. *)
ChunksReadBeforeFailure(start, end) ==
    IF UsesSqlite THEN {{}}
    ELSE {{i \in RelevantChunks(start, end) : i < failing} : failing \in RelevantChunks(start, end)}

(* (Variant: the window is cleared before the store is read.) *)
FailedLoad_Cleared(start, end) == Window(<< >>, FALSE, cache_start, cache_end)

(* The window after a load whose read raised: pd.read_sql raises before     *)
(* self._cache is assigned; pd.read_csv raises inside the loop, before the  *)
(* concatenation is assigned.                                               *)
FailedLoad(start, end) == CurrentWindow

get_tick_at_fails(t) ==
    /\ NeedsReload(t)
    /\ LoadReadsStore(t - LookBack, t + LookAhead)
    /\ SetWindow(FailedLoad(t - LookBack, t + LookAhead))
    /\ ret' = None
    /\ exc' = "StoreError"
    /\ reads' = << <<t - LookBack, t + LookAhead>> >>
    /\ chunks_read' \in ChunksReadBeforeFailure(t - LookBack, t + LookAhead)
    /\ op' = Call("get_tick_at", t, t, 0)
    /\ UNCHANGED <<setupVars, db_path, table, chunks, cache_size, gen, yielded, cursors, builderVars, appVars>>

get_ticks_range_fails(start, end, limit) ==
    /\ LoadReadsStore(start, end)
    /\ IF UsesSqlite
       THEN UNCHANGED <<cache, cache_cols, cache_start, cache_end>>
       ELSE SetWindow(FailedLoad(start, end))
    /\ ret' = None
    /\ exc' = "StoreError"
    /\ reads' = << <<start, end>> >>
    /\ chunks_read' \in ChunksReadBeforeFailure(start, end)
    /\ op' = Call("get_ticks_range", start, end, limit)
    /\ UNCHANGED <<setupVars, db_path, table, chunks, cache_size, gen, yielded, cursors, builderVars, appVars>>

(* The exception leaves the generator through the frame, which is finished. *)
stream_next_fails ==
    /\ Len(yielded) <= MaxYields
    /\ gen.pc \in {"created", "yield", "yield_clip"}
    /\ \E o \in Resume(gen) :
          /\ o.reads # << >>
          /\ LoadReadsStore(o.reads[1][1], o.reads[1][2])
          /\ gen' = Finished(o.gen)
          /\ SetWindow(FailedLoad(o.reads[1][1], o.reads[1][2]))
          /\ reads' = o.reads
          /\ chunks_read' \in ChunksReadBeforeFailure(o.reads[1][1], o.reads[1][2])
          /\ cursors' = Append(cursors, o.reads[1][1])
    /\ ret' = None
    /\ exc' = "StoreError"
    /\ yielded' = yielded
    /\ op' = Call("stream_next", 0, 0, 0)
    /\ UNCHANGED <<setupVars, db_path, table, chunks, cache_size, builderVars, appVars>>

----------------------------------------------------------------------------
(* The stores a loader is constructed over: up to MaxTicks rows in time     *)
(* order, in one table or cut into consecutive non-empty chunk files.        *)
RowUniverse == {Row(t, p) : t \in TickTimes, p \in TickPrices}

RowLess(a, b) == a.timestamp < b.timestamp \/ (a.timestamp = b.timestamp /\ a.price <= b.price)

(* Prices are payload to the loader: the second price serves only to tell   *)
(* apart rows that share a timestamp.                                       *)
Stores == UNION {{s \in [1 .. n -> RowUniverse] :
                     /\ \A i \in 1 .. n - 1 : RowLess(s[i], s[i + 1])
                     /\ \A i \in 1 .. n : s[i].price # 100 =>
                            i > 1 /\ s[i - 1].timestamp = s[i].timestamp} :
                    n \in 0 .. MaxTicks}

(* Cut s after the positions in cuts. *)
RECURSIVE CutAt(_, _, _)
CutAt(s, cuts, from) ==
    IF from > Len(s) THEN << >>
    ELSE LET stops == {k \in cuts : k >= from} \cup {Len(s)}
             to == CHOOSE k \in stops : \A j \in stops : k <= j
         IN  << SubSeq(s, from, to) >> \o CutAt(s, cuts, to + 1)

Chunkings(s) == {CutAt(s, cuts, 1) : cuts \in SUBSET (1 .. Len(s) - 1)}

(* Construction. The database file at "db" holds `table` and `metadata`,     *)
(* the directory at "dir" holds `chunks` and possibly a manifest; every     *)
(* other path does not exist.                                               *)
MetaKeys == {"start_timestamp", "end_timestamp", "total_records"}
NoMetadata == [table |-> FALSE, keys |-> {}]
FullMetadata == [table |-> TRUE, keys |-> MetaKeys]

PathExists(path) == path \in {"db", "dir"}

Bounds(a, b, n) == [start |-> a, end |-> b, total |-> n]
Unset == Bounds(NoneTS, NoneTS, 0)

(* (Variant: without a valid path the loader falls back to the directory.) *)
InitializeBranch_NoRaise(db_arg, dir_arg) ==
    IF db_arg # "none" /\ PathExists(db_arg) THEN "sqlite" ELSE "csv"

(* _initialize *)
InitializeBranch(db_arg, dir_arg) ==
    IF db_arg # "none" /\ PathExists(db_arg) THEN "sqlite"
    ELSE IF dir_arg # "none" /\ PathExists(dir_arg) THEN "csv"
    ELSE "error"

(* _init_sqlite: each metadata key that has a row sets its attribute; the   *)
(* aggregate query runs only when a metadata query raises (no metadata      *)
(* table). MIN and MAX of an empty table are NULL.                          *)
InitSqlite ==
    IF metadata.table
    THEN Bounds(IF "start_timestamp" \in metadata.keys THEN TS(SeqMin(table)) ELSE NoneTS,
                IF "end_timestamp" \in metadata.keys THEN TS(SeqMax(table)) ELSE NoneTS,
                IF "total_records" \in metadata.keys THEN Len(table) ELSE 0)
    ELSE IF table = << >> THEN Unset
    ELSE Bounds(TS(SeqMin(table)), TS(SeqMax(table)), Len(table))

(* _init_csv: the chunk list comes from the manifest or from a scan of the  *)
(* files (first row, last row, row count), sorted by start_timestamp; both  *)
(* give the same list for the files the generator writes.                   *)
InitCsv ==
    IF chunks = << >> THEN Unset
    ELSE Bounds(TS(ChunkStart(chunks[1])), TS(ChunkEnd(chunks[Len(chunks)])),
                Len(Flatten(chunks)))

(* The chunk files _init_csv reads: none with a manifest, and without one    *)
(* every file of the directory (first row, last row, row count).            *)
InitChunksRead(branch) ==
    IF branch = "csv" /\ ~manifest THEN 1 .. Len(chunks) ELSE {}

Constructed == op.name # "none" /\ ~(op.name = "init" /\ exc # "none")

construct(db_arg, dir_arg, size) ==
    /\ op.name = "none"
    /\ db_path' = db_arg
    /\ csv_dir' = dir_arg
    /\ cache_size' = size
    /\ cache' = << >>
    /\ cache_cols' = FALSE
    /\ cache_start' = NoneTS
    /\ cache_end' = NoneTS
    /\ LET branch == InitializeBranch(db_arg, dir_arg)
           b == IF branch = "sqlite" THEN InitSqlite
                ELSE IF branch = "csv" THEN InitCsv
                ELSE Unset
       IN  /\ data_start' = b.start
           /\ data_end' = b.end
           /\ total_records' = b.total
           /\ exc' = IF branch = "error" THEN "ValueError" ELSE "none"
    /\ op' = Call("init", 0, 0, 0)
    /\ ret' = None
    /\ reads' = << >>
    /\ chunks_read' = InitChunksRead(InitializeBranch(db_arg, dir_arg))
    /\ UNCHANGED <<metadata, manifest, ohlc_tables, table, chunks, gen, yielded, cursors,
                   builderVars, appVars>>

DateOf(t) == t - (t % DaySeconds)

(* The elements of a set of integers in ascending order. *)
Ascending(S) ==
    CHOOSE q \in [1 .. Cardinality(S) -> S] :
        \A i \in 1 .. Cardinality(S) - 1 : q[i] < q[i + 1]

(* get_available_dates: `if self.db_path:` selects the SQL query; a path    *)
(* without a database has no table tick_data.                               *)
get_available_dates ==
    /\ Constructed
    /\ IF db_path # "none"
       THEN IF db_path = "db"
            THEN /\ ret' = Ascending({DateOf(table[i].timestamp) : i \in 1 .. Len(table)})
                 /\ exc' = "none"
            ELSE /\ ret' = None
                 /\ exc' = "OperationalError"
       ELSE /\ ret' = Ascending({DateOf(ChunkStart(chunks[i])) : i \in 1 .. Len(chunks)})
            /\ exc' = "none"
    /\ op' = Call("get_available_dates", 0, 0, 0)
    /\ reads' = << >>
    /\ chunks_read' = {}
    /\ UNCHANGED <<setupVars, db_path, table, chunks, cache_size, cache, cache_cols,
                   cache_start, cache_end, gen, yielded, cursors, builderVars, appVars>>

(* get_ohlc. The pre-aggregated tables hold what aggregate_to_ohlc          *)
(* (generate_tick_data.py) writes: one bar per non-empty interval of         *)
(* tick_data, with the volume-weighted price kept as the pair of its         *)
(* numerator and denominator.                                                *)
RECURSIVE SumVolume(_)
SumVolume(s) == IF s = << >> THEN 0 ELSE Head(s).volume + SumVolume(Tail(s))

RECURSIVE SumPriceVolume(_)
SumPriceVolume(s) ==
    IF s = << >> THEN 0 ELSE Head(s).price * Head(s).volume + SumPriceVolume(Tail(s))

PriceMax(s) == CHOOSE m \in {s[i].price : i \in 1 .. Len(s)} : \A i \in 1 .. Len(s) : m >= s[i].price
PriceMin(s) == CHOOSE m \in {s[i].price : i \in 1 .. Len(s)} : \A i \in 1 .. Len(s) : m <= s[i].price

BinOf(t, freq) == t - (t % freq)
Bins(ticks, freq) == Ascending({BinOf(ticks[i].timestamp, freq) : i \in 1 .. Len(ticks)})
InBin(ticks, freq, bin) == SelectSeq(ticks, LAMBDA r : BinOf(r.timestamp, freq) = bin)

(* aggregate_to_ohlc: group_by_dynamic(every=interval, closed='left'). *)
AggregateOhlc(ticks, freq) ==
    LET bins == Bins(ticks, freq)
    IN  [k \in 1 .. Len(bins) |->
            LET g == InBin(ticks, freq, bins[k])
            IN  [timestamp |-> bins[k], open |-> g[1].price, high |-> PriceMax(g),
                 low |-> PriceMin(g), close |-> g[Len(g)].price,
                 volume |-> SumVolume(g),
                 vwap |-> <<SumPriceVolume(g),
                            SumVolume(g)>>,
                 trade_count |-> Len(g)]]

(* ticks.resample(freq).agg(...).dropna(): lines 343-352. *)
Resample(ticks, freq) ==
    LET bins == Bins(ticks, freq)
    IN  [k \in 1 .. Len(bins) |->
            LET g == InBin(ticks, freq, bins[k])
            IN  [timestamp |-> bins[k], open |-> g[1].price, high |-> PriceMax(g),
                 low |-> PriceMin(g), close |-> g[Len(g)].price,
                 volume |-> SumVolume(g)]]

(* table_map (line 319) and freq_map (lines 345-346), in seconds. *)
HasOhlcTable(timeframe) == timeframe \in {"1s", "1m", "5m"}
FreqSeconds(timeframe) ==
    IF timeframe = "1s" THEN 1 ELSE IF timeframe = "5m" THEN 300 ELSE 60

(* Lines 341-354: an empty frame of ticks gives pd.DataFrame(). *)
OhlcOf(ticks, timeframe) ==
    IF ticks = << >> THEN << >> ELSE Resample(ticks, FreqSeconds(timeframe))

OhlcCall(start, end, timeframe) ==
    [name |-> "get_ohlc", start |-> start, end |-> end, limit |-> 0, timeframe |-> timeframe]

(* get_ohlc: the query on the pre-aggregated table when the loader has a    *)
(* db_path and the timeframe a table (an empty table gives no rows); when   *)
(* the query raises (no such table) or does not apply,                      *)
(* get_ticks_range(start, end) and the aggregation.                         *)
get_ohlc(start, end, timeframe) ==
    /\ IF UsesSqlite /\ HasOhlcTable(timeframe) /\ ohlc_tables # "absent"
       THEN /\ ret' = IF ohlc_tables = "filled"
                      THEN InRange(AggregateOhlc(table, FreqSeconds(timeframe)), start, end)
                      ELSE << >>
            /\ exc' = "none"
            /\ chunks_read' = {}
            /\ UNCHANGED <<cache, cache_cols, cache_start, cache_end>>
       ELSE /\ IF UsesSqlite
               THEN /\ ret' = OhlcOf(SqlQuery(start, end, 0), timeframe)
                    /\ exc' = "none"
                    /\ UNCHANGED <<cache, cache_cols, cache_start, cache_end>>
               ELSE \E w \in LoadCache(start, end) :
                       /\ SetWindow(w)
                       /\ IF w.cols
                          THEN /\ ret' = OhlcOf(InRange(w.cache, start, end), timeframe)
                               /\ exc' = "none"
                          ELSE /\ ret' = None
                               /\ exc' = "KeyError"
            /\ chunks_read' = LoadChunksRead(start, end)
    /\ reads' = << <<start, end>> >>
    /\ op' = OhlcCall(start, end, timeframe)
    /\ UNCHANGED <<setupVars, db_path, table, chunks, cache_size, gen, yielded, cursors, builderVars, appVars>>

(* A loader constructed over the generator's output: the database with its  *)
(* metadata rows, or the directory with its manifest.                       *)
GeneratedStore ==
    /\ csv_dir = IF db_path = "db" THEN "none" ELSE "dir"
    /\ metadata = IF db_path = "db" /\ table # << >> THEN FullMetadata ELSE NoMetadata
    /\ manifest = (db_path # "db")
    /\ LET b == IF db_path = "db" THEN InitSqlite ELSE InitCsv
       IN  /\ data_start = b.start
           /\ data_end = b.end
           /\ total_records = b.total

(* The database as the generator's default run leaves it                   *)
(* (create_database_schema, save_to_sqlite, aggregate_to_ohlc): the          *)
(* pre-aggregated tables hold the bars of tick_data.                         *)
GeneratedSetup ==
    GeneratedStore /\ ohlc_tables = (IF db_path = "db" THEN "filled" ELSE "absent")

(* The stores of the loader's operations: the database with the             *)
(* pre-aggregated tables filled (aggregate_to_ohlc), created and left empty  *)
(* (create_database_schema and save_to_sqlite alone) or absent (a database   *)
(* written by save_to_sqlite alone).                                         *)
LoaderInit ==
    /\ \E s \in Stores :
          \/ db_path = "db" /\ table = s /\ chunks = << >>
          \/ db_path = "none" /\ table = << >> /\ chunks \in Chunkings(s)
    /\ GeneratedStore
    /\ ohlc_tables \in (IF db_path = "db" THEN {"absent", "empty", "filled"} ELSE {"absent"})
    /\ cache_size \in CacheSizes
    /\ cache = << >>
    /\ cache_cols = FALSE
    /\ cache_start = NoneTS
    /\ cache_end = NoneTS
    /\ op = Call("init", 0, 0, 0)
    /\ ret = None
    /\ exc = "none"
    /\ reads = << >>
    /\ chunks_read = {}
    /\ gen = GeneratorIdle
    /\ yielded = << >>
    /\ cursors = << >>

BuilderIdle ==
    /\ tf_seconds = 60
    /\ current_candle = None
    /\ current_candle_start = None
    /\ completed_candles = << >>
    /\ b_ret = None
    /\ snapshot = None
    /\ ingested = << >>
    /\ b_op = BCall("init", FALSE, 0, 0)
    /\ start_ret = None

Init == LoaderInit /\ BuilderIdle /\ AppIdle

OhlcTimeframes == {"1s", "1m", "5m", "1h"}

Next ==
    \/ \E t \in QueryTimes : get_tick_at(t)
    \/ \E r \in Ranges, l \in Limits : get_ticks_range(r[1], r[2], l)
    \/ \E r \in Ranges, tf \in OhlcTimeframes : get_ohlc(r[1], r[2], tf)

(* The same stores as the generator's default run leaves them; no operation *)
(* but get_ohlc reads the pre-aggregated tables.                             *)
PlainInit == Init /\ GeneratedSetup

(* A stream with the consumer's other calls on the same loader between its   *)
(* batches.                                                                 *)
StreamStarts == {0}
StreamEnds == {NoneTS, TS(1800)}
BatchSizes == 1 .. MaxBatch
StreamQueryTimes == {3700}
StreamRanges == {<<0, 1800>>, <<3700, 3700>>}

StreamNext ==
    \/ \E t \in StreamQueryTimes : get_tick_at(t)
    \/ \E r \in StreamRanges : get_ticks_range(r[1], r[2], 0)
    \/ \E a \in StreamStarts, b \in StreamEnds, n \in BatchSizes : stream_ticks(a, b, n)
    \/ stream_next

(* One uninterrupted stream over a newly constructed loader. *)
RunStarts == {0, 1, 1800}
RunEnds == {NoneTS, TS(0), TS(1800), TS(3700)}

RunNext ==
    \/ \E a \in RunStarts, b \in RunEnds, n \in BatchSizes :
          gen.pc = "none" /\ stream_ticks(a, b, n)
    \/ stream_next

(* One stream for 09:30:00 to 09:35:00 in batches of 60 over a store with   *)
(* one tick per second, on a loader with the default cache size; the       *)
(* partitioned store is one file or two files cut at any tick.             *)
default_cache_size == 300000
ScenarioStart == 9 * 3600 + 30 * 60
ScenarioEnd == ScenarioStart + 5 * 60
ScenarioStore == [i \in 1 .. (ScenarioEnd - ScenarioStart) + 5 |-> Row(ScenarioStart + i - 3, 100)]

ScenarioLoaderInit ==
    /\ \/ db_path = "db" /\ table = ScenarioStore /\ chunks = << >>
       \/ /\ db_path = "none" /\ table = << >>
          /\ \E k \in 0 .. Len(ScenarioStore) - 1 : chunks = CutAt(ScenarioStore, {k}, 1)
    /\ GeneratedSetup
    /\ cache_size = default_cache_size
    /\ cache = << >>
    /\ cache_cols = FALSE
    /\ cache_start = NoneTS
    /\ cache_end = NoneTS
    /\ op = Call("init", 0, 0, 0)
    /\ ret = None
    /\ exc = "none"
    /\ reads = << >>
    /\ chunks_read = {}
    /\ gen = GeneratorIdle
    /\ yielded = << >>
    /\ cursors = << >>

ScenarioInit == ScenarioLoaderInit /\ BuilderIdle /\ AppIdle

ScenarioNext ==
    \/ gen.pc = "none" /\ stream_ticks(ScenarioStart, TS(ScenarioEnd), 60)
    \/ stream_next

SpecScenario == ScenarioInit /\ [][ScenarioNext]_vars

(* Point lookups, range queries and one stream, each store read of which    *)
(* may fail.                                                                *)
FaultyQueryTimes == {3700}
FaultyRanges == {<<0, 1800>>}

FaultyNext ==
    \/ \E t \in FaultyQueryTimes : get_tick_at(t)
    \/ \E t \in FaultyQueryTimes : get_tick_at_fails(t)
    \/ \E r \in FaultyRanges : get_ticks_range(r[1], r[2], 0)
    \/ \E r \in FaultyRanges : get_ticks_range_fails(r[1], r[2], 0)
    \/ gen.pc = "none" /\ stream_ticks(0, NoneTS, 1)
    \/ stream_next
    \/ stream_next_fails

(* Construction over what is on disk, then get_available_dates: a store of  *)
(* ticks on up to three days, held by the database (with any subset of the  *)
(* metadata rows, or no metadata table) and by the chunk directory (with or *)
(* without manifest).                                                       *)
DatedTimes == {0, 3700, DaySeconds + 5, 2 * DaySeconds}
DatedStores == UNION {{s \in [1 .. n -> {Row(t, 100) : t \in DatedTimes}] :
                          \A i \in 1 .. n - 1 : s[i].timestamp < s[i + 1].timestamp} :
                      n \in 0 .. MaxTicks}
PathArgs == {"none", "missing"}

ConstructInit ==
    /\ \E s \in DatedStores : table = s /\ chunks \in Chunkings(s)
    /\ metadata \in {NoMetadata} \cup
                     {[table |-> TRUE, keys |-> k] :
                        k \in IF table = << >> THEN {{}} ELSE SUBSET MetaKeys}
    /\ manifest \in BOOLEAN
    /\ ohlc_tables = "empty"
    /\ db_path = "none"
    /\ csv_dir = "none"
    /\ data_start = NoneTS
    /\ data_end = NoneTS
    /\ total_records = 0
    /\ cache_size = 1
    /\ cache = << >>
    /\ cache_cols = FALSE
    /\ cache_start = NoneTS
    /\ cache_end = NoneTS
    /\ op = Call("none", 0, 0, 0)
    /\ ret = None
    /\ exc = "none"
    /\ reads = << >>
    /\ chunks_read = {}
    /\ gen = GeneratorIdle
    /\ yielded = << >>
    /\ cursors = << >>
    /\ BuilderIdle
    /\ AppIdle

ConstructNext ==
    \/ \E db_arg \in PathArgs \cup {"db"}, dir_arg \in PathArgs \cup {"dir"}, size \in CacheSizes :
          construct(db_arg, dir_arg, size)
    \/ get_available_dates

SpecConstruct == ConstructInit /\ [][ConstructNext]_vars

Spec == Init /\ [][Next]_vars

SpecFaulty == PlainInit /\ [][FaultyNext]_vars

SpecStream == PlainInit /\ [][StreamNext]_vars

SpecRun == PlainInit /\ [][RunNext]_vars

(* The consumer keeps requesting batches. *)
SpecRunFair == SpecRun /\ WF_vars(stream_next)

----------------------------------------------------------------------------
(* OHLCBuilder *)

(* _parse_timeframe on a token <number><unit>. *)
ParseTimeframe(n, unit) ==
    IF unit = "s" THEN n
    ELSE IF unit = "m" THEN n * 60
    ELSE IF unit = "h" THEN n * 3600
    ELSE 60

(* _get_candle_start: the time of day truncated to a multiple of the         *)
(* timeframe, on the date of the timestamp.                                 *)
CandleStart_FromEpoch(timestamp) == (timestamp \div tf_seconds) * tf_seconds

CandleStart(timestamp) ==
    LET seconds == timestamp % DaySeconds
        candle_seconds == (seconds \div tf_seconds) * tf_seconds
        hours == candle_seconds \div 3600
        minutes == (candle_seconds % 3600) \div 60
        secs == candle_seconds % 60
    IN  (timestamp - seconds) + hours * 3600 + minutes * 60 + secs

NewCandle(candle_start, price, volume) ==
    [timestamp |-> candle_start, open |-> price, high |-> price, low |-> price,
     close |-> price, volume |-> volume, tick_count |-> 1]

(* Mutant: the update without the new high. *)
UpdateCandle_NoHigh(c, price, volume) ==
    [c EXCEPT !.low = Min2(c.low, price),
              !.close = price,
              !.volume = c.volume + volume,
              !.tick_count = c.tick_count + 1]

(* Mutant: the volume is overwritten instead of accumulated. *)
UpdateCandle_VolumeReplaced(c, price, volume) ==
    [c EXCEPT !.high = Max2(c.high, price),
              !.low = Min2(c.low, price),
              !.close = price,
              !.volume = volume,
              !.tick_count = c.tick_count + 1]

(* Mutant: the tick is not counted. *)
UpdateCandle_NoCount(c, price, volume) ==
    [c EXCEPT !.high = Max2(c.high, price),
              !.low = Min2(c.low, price),
              !.close = price,
              !.volume = c.volume + volume]

UpdateCandle(c, price, volume) ==
    [c EXCEPT !.high = Max2(c.high, price),
              !.low = Min2(c.low, price),
              !.close = price,
              !.volume = c.volume + volume,
              !.tick_count = c.tick_count + 1]

(* Mutant: the trim keeps the first max_candles entries. *)
Trim_KeepOldest(cs) == IF Len(cs) > max_candles THEN SubSeq(cs, 1, max_candles) ELSE cs

(* The trim of the completed list to its last max_candles entries. *)
Trim(cs) == IF Len(cs) > max_candles THEN SubSeq(cs, Len(cs) - max_candles + 1, Len(cs)) ELSE cs

(* Mutants: the rollover test with >= and with /=. *)
StartsNewCandle_NotBefore(candle_start) ==
    current_candle = None \/ candle_start >= current_candle_start[1]

StartsNewCandle_NotEqual(candle_start) ==
    current_candle = None \/ candle_start # current_candle_start[1]

(* Mutant: every tick starts a new candle. *)
StartsNewCandle_Always(candle_start) == TRUE

StartsNewCandle(candle_start) ==
    current_candle = None \/ candle_start > current_candle_start[1]

(* Mutant: the open bar is appended without a copy and updated in place, so *)
(* the last sealed bar follows the open bar.                                *)
add_tick_SharedDict(tick) ==
    LET candle_start == CandleStart(tick.timestamp)
        shared(c) == IF completed_candles = << >> THEN completed_candles
                     ELSE [completed_candles EXCEPT ![Len(completed_candles)] = c]
    IN  /\ Len(ingested) < MaxIngest
        /\ IF current_candle = None \/ candle_start > current_candle_start[1]
           THEN /\ IF current_candle # None
                   THEN /\ b_ret' = current_candle
                        /\ completed_candles' =
                              Trim(Append(completed_candles,
                                          NewCandle(candle_start, tick.price, tick.volume)))
                   ELSE /\ b_ret' = None
                        /\ UNCHANGED completed_candles
                /\ current_candle_start' = Some(candle_start)
                /\ current_candle' = Some(NewCandle(candle_start, tick.price, tick.volume))
           ELSE /\ current_candle' = Some(UpdateCandle(current_candle[1], tick.price, tick.volume))
                /\ completed_candles' = shared(UpdateCandle(current_candle[1], tick.price, tick.volume))
                /\ b_ret' = None
                /\ UNCHANGED current_candle_start
        /\ snapshot' = None
        /\ ingested' = Append(ingested, tick)
        /\ b_op' = BCall("add_tick", FALSE, tick.timestamp, Len(completed_candles))
        /\ UNCHANGED <<tf_seconds, start_ret, loaderVars, appVars>>

add_tick(tick) ==
    LET candle_start == CandleStart(tick.timestamp)
    IN  /\ Len(ingested) < MaxIngest
        /\ IF StartsNewCandle(candle_start)
           THEN /\ IF current_candle # None
                   THEN /\ b_ret' = current_candle
                        /\ completed_candles' = Trim(Append(completed_candles, current_candle[1]))
                   ELSE /\ b_ret' = None
                        /\ UNCHANGED completed_candles
                /\ current_candle_start' = Some(candle_start)
                /\ current_candle' = Some(NewCandle(candle_start, tick.price, tick.volume))
           ELSE /\ current_candle' = Some(UpdateCandle(current_candle[1], tick.price, tick.volume))
                /\ b_ret' = None
                /\ UNCHANGED <<current_candle_start, completed_candles>>
        /\ snapshot' = None
        /\ ingested' = Append(ingested, tick)
        /\ b_op' = BCall("add_tick", FALSE, tick.timestamp, Len(completed_candles))
        /\ UNCHANGED <<tf_seconds, start_ret, loaderVars, appVars>>

(* Mutant: the history survives. *)
reset_KeepsHistory ==
    /\ current_candle' = None
    /\ current_candle_start' = None
    /\ UNCHANGED completed_candles
    /\ b_ret' = None
    /\ snapshot' = None
    /\ ingested' = << >>
    /\ b_op' = BCall("reset", FALSE, 0, Len(completed_candles))
    /\ UNCHANGED <<tf_seconds, start_ret, loaderVars, appVars>>

reset ==
    /\ current_candle' = None
    /\ current_candle_start' = None
    /\ completed_candles' = << >>
    /\ b_ret' = None
    /\ snapshot' = None
    /\ ingested' = << >>
    /\ b_op' = BCall("reset", FALSE, 0, Len(completed_candles))
    /\ UNCHANGED <<tf_seconds, start_ret, loaderVars, appVars>>

(* pd.DataFrame(candles); pd.DataFrame() of no candles has no columns. *)
DataFrame(rows) == [cols |-> rows # << >>, rows |-> rows]

(* Mutant: the open bar is appended whatever include_current says. *)
get_candles_AlwaysCurrent(include_current) ==
    LET candles == IF current_candle # None
                   THEN completed_candles \o current_candle
                   ELSE completed_candles
    IN  /\ snapshot' = Some(DataFrame(candles))
        /\ b_op' = BCall("get_candles", include_current, 0, Len(completed_candles))
        /\ UNCHANGED <<tf_seconds, current_candle, current_candle_start, completed_candles,
                       b_ret, ingested, start_ret, loaderVars, appVars>>

get_candles(include_current) ==
    LET candles == IF include_current /\ current_candle # None
                   THEN completed_candles \o current_candle
                   ELSE completed_candles
    IN  /\ snapshot' = Some(DataFrame(candles))
        /\ b_op' = BCall("get_candles", include_current, 0, Len(completed_candles))
        /\ UNCHANGED <<tf_seconds, current_candle, current_candle_start, completed_candles,
                       b_ret, ingested, start_ret, loaderVars, appVars>>

(* A direct call of _get_candle_start. *)
get_candle_start(timestamp) ==
    /\ start_ret' = Some(CandleStart(timestamp))
    /\ b_op' = BCall("_get_candle_start", FALSE, timestamp, Len(completed_candles))
    /\ UNCHANGED <<tf_seconds, current_candle, current_candle_start, completed_candles,
                   b_ret, snapshot, ingested, loaderVars, appVars>>

(* The ticks fed to the builder: 09:30:00, 09:30:59, 09:31:00 and 09:35:00. *)
BuilderTimes == {34200, 34259, 34260, 34500}
BuilderPrices == {99, 100, 101}
BuilderTicks == {[timestamp |-> t, price |-> p, volume |-> 10] : t \in BuilderTimes, p \in BuilderPrices}
Timeframes == {<<1, "m">>, <<5, "m">>}

LoaderIdle ==
    /\ db_path = "none"
    /\ table = << >>
    /\ chunks = << >>
    /\ GeneratedSetup
    /\ cache_size = 1
    /\ cache = << >>
    /\ cache_cols = FALSE
    /\ cache_start = NoneTS
    /\ cache_end = NoneTS
    /\ op = Call("init", 0, 0, 0)
    /\ ret = None
    /\ exc = "none"
    /\ reads = << >>
    /\ chunks_read = {}
    /\ gen = GeneratorIdle
    /\ yielded = << >>
    /\ cursors = << >>

BuilderInit ==
    /\ LoaderIdle
    /\ AppIdle
    /\ \E tf \in Timeframes : tf_seconds = ParseTimeframe(tf[1], tf[2])
    /\ current_candle = None
    /\ current_candle_start = None
    /\ completed_candles = << >>
    /\ b_ret = None
    /\ snapshot = None
    /\ ingested = << >>
    /\ b_op = BCall("init", FALSE, 0, 0)
    /\ start_ret = None

BuilderNext ==
    \/ \E tick \in BuilderTicks : add_tick(tick)
    \/ reset

SpecBuilder == BuilderInit /\ [][BuilderNext]_vars

(* A 1m builder that is new, or has been fed one tick per minute up to      *)
(* 09:29 so that its history holds max_candles - 1 or max_candles sealed    *)
(* bars behind the open bar of 09:29; then ticks of 09:29 to 09:32.         *)
PreloadCounts == {0, max_candles - 1, max_candles}
LastFed == 9 * 3600 + 29 * 60
Preloaded(n) == [i \in 1 .. n |-> NewCandle(LastFed - 60 * (n - i + 1), 100, 10)]
HistoryTimes == {LastFed, LastFed + 60, LastFed + 120, LastFed + 180}
HistoryPrices == {100, 101}
HistoryTicks == {[timestamp |-> t, price |-> p, volume |-> 10] : t \in HistoryTimes, p \in HistoryPrices}

HistoryInit ==
    /\ LoaderIdle
    /\ AppIdle
    /\ tf_seconds = ParseTimeframe(1, "m")
    /\ \E n \in PreloadCounts :
          /\ completed_candles = Preloaded(n)
          /\ current_candle = IF n = 0 THEN None ELSE Some(NewCandle(LastFed, 100, 10))
          /\ current_candle_start = IF n = 0 THEN None ELSE Some(LastFed)
          /\ b_op = IF n = 0 THEN BCall("init", FALSE, 0, 0)
                    ELSE BCall("add_tick", FALSE, LastFed, n - 1)
    /\ b_ret = None
    /\ snapshot = None
    /\ ingested = << >>
    /\ start_ret = None

HistoryNext ==
    \/ \E tick \in HistoryTicks : add_tick(tick)
    \/ \E include_current \in BOOLEAN : get_candles(include_current)
    \/ reset

SpecHistory == HistoryInit /\ [][HistoryNext]_vars

(* _get_candle_start on its own: builders of several timeframes (one with an *)
(* interval that does not divide the day, one longer than a day, one with   *)
(* an unknown unit) asked for the bucket of instants on two days.           *)
BucketTimeframes == {<<1, "s">>, <<7, "s">>, <<1, "m">>, <<5, "m">>, <<7, "m">>,
                     <<1, "h">>, <<48, "h">>, <<1, "d">>}
BucketTimes == {0, 1, 59, 60, 419, 420, 3599, 3600, 34259, DaySeconds - 1,
                DaySeconds, DaySeconds + 6, DaySeconds + 61, DaySeconds + 3600, 2 * DaySeconds - 1}

BucketInit ==
    /\ LoaderIdle
    /\ AppIdle
    /\ \E tf \in BucketTimeframes : tf_seconds = ParseTimeframe(tf[1], tf[2])
    /\ current_candle = None
    /\ current_candle_start = None
    /\ completed_candles = << >>
    /\ b_ret = None
    /\ snapshot = None
    /\ ingested = << >>
    /\ b_op = BCall("init", FALSE, 0, 0)
    /\ start_ret = None

BucketNext == \E timestamp \in BucketTimes : get_candle_start(timestamp)

SpecBucket == BucketInit /\ [][BucketNext]_vars

----------------------------------------------------------------------------
(* The playback app (realtime_candlestick_app_v2.py). A script run is the    *)
(* handler of the widget that changed, then chart_fragment, which main calls *)
(* at its end; the auto-refresh reruns chart_fragment alone.                 *)

MaxPlayed == 2

FourAM == 4 * 3600
Sessions == << [name |-> "premarket", start |-> FourAM, end |-> 9 * 3600 + 30 * 60],
               [name |-> "rth", start |-> 9 * 3600 + 30 * 60, end |-> 16 * 3600],
               [name |-> "afterhours", start |-> 16 * 3600, end |-> 20 * 3600] >>

(* get_current_session: the index of the session holding the time of day of  *)
(* t, 0 for 'closed'.                                                        *)
CurrentSession(t) ==
    LET tod == t % DaySeconds
        holds == {i \in 1 .. Len(Sessions) : Sessions[i].start <= tod /\ tod < Sessions[i].end}
    IN  IF holds = {} THEN 0 ELSE CHOOSE i \in holds : \A j \in holds : i <= j

(* JUMP_OPTIONS: a timedelta in seconds, 'session' or 'day'. *)
Delta(v) == [kind |-> "delta", v |-> v]
SessionJump == [kind |-> "session", v |-> 0]
DayJump == [kind |-> "day", v |-> 0]
JUMP_OPTIONS == {Delta(60), Delta(300), Delta(1800), Delta(3600), Delta(5400), Delta(7200),
                 SessionJump, DayJump}

JumpBack(ct, jump) ==
    IF jump.kind = "session"
    THEN IF CurrentSession(ct) # 0 THEN DateOf(ct) + Sessions[CurrentSession(ct)].start ELSE ct
    ELSE IF jump.kind = "day" THEN DateOf(ct) + FourAM
    ELSE ct - jump.v

JumpForward(ct, jump) ==
    IF jump.kind = "session"
    THEN IF CurrentSession(ct) # 0 THEN DateOf(ct) + Sessions[CurrentSession(ct)].end ELSE ct
    ELSE IF jump.kind = "day" THEN DateOf(ct) + DaySeconds + FourAM
    ELSE ct + jump.v

(* The OHLCBuilder held in session_state.ohlc_builder, as a value. *)
CurrentBuilder ==
    [tf_seconds |-> tf_seconds, current_candle |-> current_candle,
     current_candle_start |-> current_candle_start, completed_candles |-> completed_candles,
     b_ret |-> b_ret, ingested |-> ingested]

(* OHLCBuilder(timeframe). *)
NewBuilder(timeframe) ==
    [tf_seconds |-> ParseTimeframe(timeframe[1], timeframe[2]), current_candle |-> None,
     current_candle_start |-> None, completed_candles |-> << >>, b_ret |-> None,
     ingested |-> << >>]

SetBuilder(b) ==
    /\ tf_seconds' = b.tf_seconds
    /\ current_candle' = b.current_candle
    /\ current_candle_start' = b.current_candle_start
    /\ completed_candles' = b.completed_candles
    /\ b_ret' = b.b_ret
    /\ ingested' = b.ingested

(* _get_candle_start of a builder with the given interval. *)
CandleStartOf(interval, timestamp) ==
    LET seconds == timestamp % DaySeconds
        candle_seconds == (seconds \div interval) * interval
        hours == candle_seconds \div 3600
        minutes == (candle_seconds % 3600) \div 60
        secs == candle_seconds % 60
    IN  (timestamp - seconds) + hours * 3600 + minutes * 60 + secs

(* add_tick on the builder b. *)
AddTick(b, tick) ==
    LET candle_start == CandleStartOf(b.tf_seconds, tick.timestamp)
    IN  IF b.current_candle = None \/ candle_start > b.current_candle_start[1]
        THEN [b EXCEPT !.b_ret = b.current_candle,
                       !.completed_candles = IF b.current_candle # None
                                             THEN Trim(Append(@, b.current_candle[1])) ELSE @,
                       !.current_candle_start = Some(candle_start),
                       !.current_candle = Some(NewCandle(candle_start, tick.price, tick.volume)),
                       !.ingested = Append(@, tick)]
        ELSE [b EXCEPT !.b_ret = None,
                       !.current_candle = Some(UpdateCandle(@[1], tick.price, tick.volume)),
                       !.ingested = Append(@, tick)]

(* The timestamps the playback position is followed over: a window around    *)
(* the data, and the fixed instants the session and day jumps lead to.       *)
PlayLo == 9 * 3600 + 29 * 60
PlayHi == 9 * 3600 + 32 * 60 + 30
PlayStops == {FourAM, 16 * 3600}
InPlayRange(ct) == ct.kind = "None" \/ (PlayLo <= ct.v /\ ct.v <= PlayHi) \/ ct.v \in PlayStops

(* (Variant: the position is not held at end.) *)
Bounded_NoClamp(ct, end_time) == ct

(* Lines 396-397: the position after the bounds check. *)
Bounded(ct, end_time) == IF ct > end_time THEN end_time ELSE ct

(* st.session_state.candles as init_session_state and the handlers that    *)
(* replace the builder leave it: pd.DataFrame() (lines 364, 624, 640, 718).  *)
EmptyCandles == Some(DataFrame(<< >>))

(* A script run. Every read and write of st.session_state is a point where  *)
(* Streamlit stops the running script when a widget asks for a rerun, so a   *)
(* run is a sequence of steps, one per assignment, and a click starts its    *)
(* own run on the state the stopped run left. pc is the next assignment of   *)
(* the run in progress ("idle": none), tick, end_arg and tf_arg are its      *)
(* locals (tick of chart_fragment, the end of "Set Time Range",              *)
(* new_timeframe); refresh tells whether the fragment rendered last          *)
(* registered st_autorefresh.                                                *)
Clicked(pc, end_arg, tf_arg) ==
    [pc |-> pc, tick |-> None, end_arg |-> end_arg, tf_arg |-> tf_arg, refresh |-> run.refresh]

Handled(pc) == Clicked(pc, NoneTS, <<1, "m">>)

(* A handler that makes one assignment to session_state and leaves the rest *)
(* of main to run: chart_fragment is called at line 793.                    *)
Assign(s) ==
    /\ session_state' = s
    /\ InPlayRange(s.current_timestamp)
    /\ run' = Handled("frag")
    /\ UNCHANGED <<loaderVars, builderVars>>

(* st.session_state.ohlc_builder = OHLCBuilder(timeframe). *)
ReplaceBuilder(timeframe) ==
    /\ SetBuilder(NewBuilder(timeframe))
    /\ b_op' = BCall("init", FALSE, 0, 0)
    /\ UNCHANGED <<snapshot, start_ret>>

(* st.session_state.candles = pd.DataFrame(). *)
ClearCandles ==
    /\ snapshot' = EmptyCandles
    /\ UNCHANGED <<tf_seconds, current_candle, current_candle_start, completed_candles, b_ret,
                   ingested, b_op, start_ret>>

(* "Load Data" (lines 582-587): a new loader on the database (line 584),    *)
(* which has run no lookup yet, then the position (586) and the builder      *)
(* (587).                                                                    *)
load_data ==
    /\ db_path = "db"
    /\ SetWindow(Window(<< >>, FALSE, NoneTS, NoneTS))
    /\ op' = Call("init", 0, 0, 0)
    /\ ret' = None
    /\ exc' = "none"
    /\ reads' = << >>
    /\ chunks_read' = {}
    /\ run' = Handled("load_position")
    /\ UNCHANGED <<setupVars, db_path, table, chunks, cache_size, gen, yielded, cursors,
                   builderVars, session_state>>

load_data_continue ==
    \/ /\ run.pc = "load_position"
       /\ session_state' = [session_state EXCEPT !.current_timestamp = data_start]
       /\ run' = [run EXCEPT !.pc = "load_builder"]
       /\ UNCHANGED <<loaderVars, builderVars>>
    \/ /\ run.pc = "load_builder"
       /\ ReplaceBuilder(session_state.timeframe)
       /\ run' = Handled("frag")
       /\ UNCHANGED <<loaderVars, session_state>>

(* "Set Time Range" (lines 615-625) for a date of get_available_dates and    *)
(* two times of day: selected_start_time (616), selected_end_time (619),     *)
(* current_timestamp (622), ohlc_builder (623), candles (624).               *)
set_time_range(date, start_tod, end_tod) ==
    /\ date \in {DateOf(table[i].timestamp) : i \in 1 .. Len(table)}
    /\ session_state' = [session_state EXCEPT !.selected_start_time = TS(date + start_tod)]
    /\ run' = Clicked("range_end", TS(date + end_tod), <<1, "m">>)
    /\ UNCHANGED <<loaderVars, builderVars>>

set_time_range_continue ==
    \/ /\ run.pc = "range_end"
       /\ session_state' = [session_state EXCEPT !.selected_end_time = run.end_arg]
       /\ run' = [run EXCEPT !.pc = "range_position"]
       /\ UNCHANGED <<loaderVars, builderVars>>
    \/ /\ run.pc = "range_position"
       /\ session_state' =
             [session_state EXCEPT !.current_timestamp = session_state.selected_start_time]
       /\ run' = [run EXCEPT !.pc = "range_builder"]
       /\ UNCHANGED <<loaderVars, builderVars>>
    \/ /\ run.pc = "range_builder"
       /\ ReplaceBuilder(session_state.timeframe)
       /\ run' = [run EXCEPT !.pc = "range_candles"]
       /\ UNCHANGED <<loaderVars, session_state>>
    \/ /\ run.pc = "range_candles"
       /\ ClearCandles
       /\ run' = Handled("frag")
       /\ UNCHANGED <<loaderVars, session_state>>

(* The timeframe selectbox (lines 632-640): timeframe (638), ohlc_builder    *)
(* (639), candles (640).                                                     *)
change_timeframe(new_timeframe) ==
    /\ new_timeframe # session_state.timeframe
    /\ session_state' = [session_state EXCEPT !.timeframe = new_timeframe]
    /\ run' = Clicked("timeframe_builder", NoneTS, new_timeframe)
    /\ UNCHANGED <<loaderVars, builderVars>>

change_timeframe_continue ==
    \/ /\ run.pc = "timeframe_builder"
       /\ ReplaceBuilder(run.tf_arg)
       /\ run' = [run EXCEPT !.pc = "timeframe_candles"]
       /\ UNCHANGED <<loaderVars, session_state>>
    \/ /\ run.pc = "timeframe_candles"
       /\ ClearCandles
       /\ run' = Handled("frag")
       /\ UNCHANGED <<loaderVars, session_state>>

(* The speed slider (lines 646-653). *)
set_speed(value) ==
    /\ value # session_state.playback_speed
    /\ Assign([session_state EXCEPT !.playback_speed = value])

(* "Start" (lines 712-719): current_timestamp (714 or 716), ohlc_builder     *)
(* (717), candles (718).                                                     *)
press_start ==
    /\ session_state' =
          [session_state EXCEPT
              !.current_timestamp = IF session_state.selected_start_time.kind = "ts"
                                    THEN session_state.selected_start_time
                                    ELSE data_start]
    /\ run' = Handled("start_builder")
    /\ UNCHANGED <<loaderVars, builderVars>>

press_start_continue ==
    \/ /\ run.pc = "start_builder"
       /\ ReplaceBuilder(session_state.timeframe)
       /\ run' = [run EXCEPT !.pc = "start_candles"]
       /\ UNCHANGED <<loaderVars, session_state>>
    \/ /\ run.pc = "start_candles"
       /\ ClearCandles
       /\ run' = Handled("frag")
       /\ UNCHANGED <<loaderVars, session_state>>

(* Moves the position by d seconds unless it is None. *)
Moved(ct, d) == IF ct.kind = "ts" THEN TS(ct.v + d) ELSE ct

(* "-1m" (lines 722-724). *)
press_minus_1m == Assign([session_state EXCEPT !.current_timestamp = Moved(@, -60)])

(* "Play" / "Pause" (lines 727-729). *)
press_play == Assign([session_state EXCEPT !.is_playing = ~@])

(* "+1m" (lines 732-734). *)
press_plus_1m == Assign([session_state EXCEPT !.current_timestamp = Moved(@, 60)])

(* "End" (lines 737-741). *)
press_end ==
    Assign([session_state EXCEPT
               !.current_timestamp = IF session_state.selected_end_time.kind = "ts"
                                     THEN session_state.selected_end_time
                                     ELSE data_end])

(* "Jump Back" (lines 751-765) and "Jump Forward" (lines 770-782). *)
jump_back(jump) ==
    Assign([session_state EXCEPT
               !.current_timestamp = IF @.kind = "ts" THEN TS(JumpBack(@.v, jump)) ELSE @])

jump_forward(jump) ==
    Assign([session_state EXCEPT
               !.current_timestamp = IF @.kind = "ts" THEN TS(JumpForward(@.v, jump)) ELSE @])

(* A widget that writes none of the fields followed here (the database path, *)
(* line 576; the date and the times of the range, 600-613; the indicator    *)
(* checkboxes, 659-661; the colour pickers, 669-675; the jump selectbox,     *)
(* 744): main runs again from its first line, which stops the run in         *)
(* progress, and reaches chart_fragment() at line 793 on the state left.     *)
rerun_main == Assign(session_state)

(* chart_fragment from its first line: the test of line 391 and the advance  *)
(* of line 393; when the test fails nothing is updated and the fragment      *)
(* renders (the auto-refresh is registered while is_playing, lines 499-502). *)
EnterFragment ==
    /\ IF session_state.is_playing /\ session_state.current_timestamp.kind = "ts"
       THEN /\ session_state' =
                  [session_state EXCEPT
                      !.current_timestamp = TS(@.v + session_state.playback_speed)]
            /\ InPlayRange(session_state'.current_timestamp)
            /\ run' = [run EXCEPT !.pc = "bounds", !.tick = None]
       ELSE /\ run' = [run EXCEPT !.pc = "idle", !.tick = None,
                                  !.refresh = session_state.is_playing]
            /\ UNCHANGED session_state
    /\ UNCHANGED <<loaderVars, builderVars>>

fragment_enter ==
    /\ run.pc = "frag"
    /\ EnterFragment

(* The auto-refresh reruns the fragment alone, when no script is running. *)
chart_refresh ==
    /\ run.pc = "idle"
    /\ run.refresh
    /\ EnterFragment

(* Lines 395-397: without an end the comparison raises TypeError and the    *)
(* run ends.                                                                 *)
fragment_bounds ==
    /\ run.pc = "bounds"
    /\ LET end_time == IF session_state.selected_end_time.kind = "ts"
                       THEN session_state.selected_end_time ELSE data_end
           ct == session_state.current_timestamp.v
       IN  IF end_time.kind # "ts"
           THEN /\ op' = Call("chart_fragment", ct, 0, 0)
                /\ ret' = None
                /\ exc' = "TypeError"
                /\ reads' = << >>
                /\ chunks_read' = {}
                /\ run' = [run EXCEPT !.pc = "idle"]
                /\ UNCHANGED <<session_state, setupVars, db_path, table, chunks, cache_size,
                               cache, cache_cols, cache_start, cache_end, gen, yielded, cursors>>
           ELSE /\ session_state' =
                      [session_state EXCEPT !.current_timestamp = TS(Bounded(ct, end_time.v))]
                /\ run' = [run EXCEPT !.pc = IF ct > end_time.v THEN "stop" ELSE "lookup"]
                /\ UNCHANGED loaderVars
    /\ UNCHANGED builderVars

(* Line 398. *)
fragment_stop ==
    /\ run.pc = "stop"
    /\ session_state' = [session_state EXCEPT !.is_playing = FALSE]
    /\ run' = [run EXCEPT !.pc = "lookup"]
    /\ UNCHANGED <<loaderVars, builderVars>>

(* Lines 401-403: get_tick_at(current_timestamp) and the test of its result. *)
fragment_lookup ==
    /\ run.pc = "lookup"
    /\ LET t == session_state.current_timestamp.v
       IN  /\ \E w \in (IF NeedsReload(t) THEN LoadCache(t - LookBack, t + LookAhead)
                        ELSE {CurrentWindow}) :
                 /\ SetWindow(w)
                 /\ ret' = TickAtOrBefore(w.cache, t)
                 /\ run' = [run EXCEPT !.tick = TickAtOrBefore(w.cache, t),
                                       !.pc = IF TickAtOrBefore(w.cache, t) # None
                                              THEN "feed" ELSE "render"]
           /\ reads' = IF NeedsReload(t) THEN << <<t - LookBack, t + LookAhead>> >> ELSE << >>
           /\ chunks_read' = IF NeedsReload(t) THEN LoadChunksRead(t - LookBack, t + LookAhead)
                             ELSE {}
           /\ op' = Call("get_tick_at", t, t, 0)
           /\ exc' = "none"
    /\ UNCHANGED <<setupVars, db_path, table, chunks, cache_size, gen, yielded, cursors,
                   builderVars, session_state>>

(* Lines 404-406: add_tick(tick) on the builder the session holds now. *)
fragment_feed ==
    /\ run.pc = "feed"
    /\ SetBuilder(AddTick(CurrentBuilder, run.tick[1]))
    /\ b_op' = BCall("add_tick", FALSE, run.tick[1].timestamp, Len(completed_candles))
    /\ run' = [run EXCEPT !.pc = "candles", !.tick = None]
    /\ UNCHANGED <<snapshot, start_ret, loaderVars, session_state>>

(* Line 407: candles = ohlc_builder.get_candles(). *)
fragment_candles ==
    /\ run.pc = "candles"
    /\ snapshot' = Some(DataFrame(completed_candles \o current_candle))
    /\ b_op' = BCall("get_candles", TRUE, 0, Len(completed_candles))
    /\ run' = [run EXCEPT !.pc = "render"]
    /\ UNCHANGED <<tf_seconds, current_candle, current_candle_start, completed_candles, b_ret,
                   ingested, start_ret, loaderVars, session_state>>

(* Lines 409-502: the fragment renders; st_autorefresh is registered while   *)
(* is_playing.                                                               *)
fragment_render ==
    /\ run.pc = "render"
    /\ run' = [run EXCEPT !.pc = "idle", !.tick = None, !.refresh = session_state.is_playing]
    /\ UNCHANGED <<loaderVars, builderVars, session_state>>

(* The steps of the script in progress. *)
ScriptStep ==
    \/ load_data_continue
    \/ set_time_range_continue
    \/ change_timeframe_continue
    \/ press_start_continue
    \/ fragment_enter
    \/ fragment_bounds
    \/ fragment_stop
    \/ fragment_lookup
    \/ fragment_feed
    \/ fragment_candles
    \/ fragment_render

(* The app after the first "Load Data" on the database of the ticks at      *)
(* 09:30:00, 09:30:30 and 09:31:30 (a gap of a minute), played at 30 or 60   *)
(* seconds per update.                                                       *)
PlayTickTimes == {9 * 3600 + 30 * 60, 9 * 3600 + 30 * 60 + 30, 9 * 3600 + 31 * 60 + 30}
PlayStores == {s \in [1 .. 3 -> {Row(t, 100) : t \in PlayTickTimes}] :
                  \A i \in 1 .. 2 : s[i].timestamp < s[i + 1].timestamp}
PlaySpeeds == {30, 60}
PlayTimeframes == {<<1, "s">>, <<1, "m">>}
PlayJumps == {SessionJump}
PlayRangeTimes == {9 * 3600 + 30 * 60, 9 * 3600 + 31 * 60}

PlayLoaded ==
    /\ db_path = "db"
    /\ table \in PlayStores
    /\ chunks = << >>
    /\ GeneratedSetup
    /\ cache_size = default_cache_size
    /\ cache = << >>
    /\ cache_cols = FALSE
    /\ cache_start = NoneTS
    /\ cache_end = NoneTS
    /\ op = Call("init", 0, 0, 0)
    /\ ret = None
    /\ exc = "none"
    /\ reads = << >>
    /\ chunks_read = {}
    /\ gen = GeneratorIdle
    /\ yielded = << >>
    /\ cursors = << >>
    /\ tf_seconds = 60
    /\ current_candle = None
    /\ current_candle_start = None
    /\ completed_candles = << >>
    /\ b_ret = None
    /\ snapshot = EmptyCandles
    /\ ingested = << >>
    /\ b_op = BCall("init", FALSE, 0, 0)
    /\ start_ret = None
    /\ run = IdleRun

PlaybackInit ==
    /\ PlayLoaded
    /\ session_state = SessionState(data_start, FALSE, 30, <<1, "m">>, NoneTS, NoneTS)

(* No more than MaxPlayed ticks are followed into one builder. *)
CanPlay == Len(ingested) < MaxPlayed

PlaybackNext ==
    \/ CanPlay /\ chart_refresh
    \/ CanPlay /\ load_data
    \/ CanPlay /\ set_time_range(0, 9 * 3600 + 30 * 60, 9 * 3600 + 31 * 60)
    \/ CanPlay /\ \E tf \in PlayTimeframes : change_timeframe(tf)
    \/ CanPlay /\ \E v \in PlaySpeeds : set_speed(v)
    \/ CanPlay /\ press_start
    \/ CanPlay /\ press_minus_1m
    \/ CanPlay /\ press_play
    \/ CanPlay /\ press_plus_1m
    \/ CanPlay /\ press_end
    \/ CanPlay /\ \E jump \in PlayJumps : jump_back(jump)
    \/ CanPlay /\ \E jump \in PlayJumps : jump_forward(jump)
    \/ CanPlay /\ rerun_main
    \/ CanPlay /\ load_data_continue
    \/ CanPlay /\ set_time_range_continue
    \/ CanPlay /\ change_timeframe_continue
    \/ CanPlay /\ press_start_continue
    \/ CanPlay /\ fragment_enter
    \/ CanPlay /\ fragment_bounds
    \/ CanPlay /\ fragment_stop
    \/ CanPlay /\ fragment_lookup
    \/ CanPlay /\ fragment_feed
    \/ fragment_candles
    \/ fragment_render

SpecPlayback == PlaybackInit /\ [][PlaybackNext]_vars

(* Playback that is left running from the start of the data or of a selected *)
(* range, to the end of the data or of the range: Play is pressed once, and  *)
(* then no widget is touched: no script run is stopped and only the          *)
(* auto-refresh (lines 499-502) starts new ones.                             *)
PlayRunSpeeds == {10, 30, 60}

PlayRunInit ==
    /\ PlayLoaded
    /\ \E speed \in PlayRunSpeeds :
          \/ session_state = SessionState(data_start, FALSE, speed, <<1, "m">>, NoneTS, NoneTS)
          \/ \E a, b \in PlayRangeTimes :
                session_state = SessionState(TS(a), FALSE, speed, <<1, "m">>, TS(a), TS(b))

PlayRunNext ==
    \/ run.pc = "idle" /\ op.name = "init" /\ ~session_state.is_playing /\ press_play
    \/ chart_refresh
    \/ fragment_enter
    \/ fragment_bounds
    \/ fragment_stop
    \/ fragment_lookup
    \/ fragment_feed
    \/ fragment_candles
    \/ fragment_render

SpecPlayRun ==
    PlayRunInit /\ [][PlayRunNext]_vars /\ WF_vars(chart_refresh) /\ WF_vars(ScriptStep)

----------------------------------------------------------------------------
(* Properties of the loader. *)

(* The rows the store holds, in time order. *)
Count(s, r) == Cardinality({i \in 1 .. Len(s) : s[i] = r})
IsSubBag(s, t) == \A i \in 1 .. Len(s) : Count(s, s[i]) <= Count(t, s[i])

(* The store holds no tick with a timestamp in [a, b]. *)
StoreEmptyIn(a, b) ==
    \A i \in 1 .. Len(StoreRows) : StoreRows[i].timestamp < a \/ StoreRows[i].timestamp > b

(* t lies in a non-empty window. *)
Covered(t) == cache # << >> /\ cache_start.kind = "ts" /\ cache_end.kind = "ts"
              /\ cache_start.v <= t /\ t <= cache_end.v

(* The last operation replaced the window by a store read for reads[1]. *)
Refilled == reads # << >> /\ ~(UsesSqlite /\ op.name = "get_ticks_range")

(* C1: whenever the window is non-empty, its ticks are in ascending          *)
(* timestamp order, _cache_start is the first tick's timestamp, _cache_end  *)
(* the last tick's, and every cached timestamp lies between the two.        *)
C1_WindowInvariant ==
    cache # << >> =>
        /\ IsSorted(cache)
        /\ cache_start = TS(cache[1].timestamp)
        /\ cache_end = TS(cache[Len(cache)].timestamp)
        /\ \A i \in 1 .. Len(cache) :
              cache_start.v <= cache[i].timestamp /\ cache[i].timestamp <= cache_end.v

C1_Witness ==
    /\ op.name = "stream_next"
    /\ reads # << >>
    /\ Len(cache) >= 2
    /\ cache[1].timestamp < cache[Len(cache)].timestamp
    /\ Len(InRange(StoreRows, reads[1][1], reads[1][2])) > Len(cache)

(* C2: get_tick_at(t) returns the latest tick of the window (as it is after  *)
(* the coverage check) with timestamp <= t; it returns None exactly when    *)
(* the window is empty or all its ticks are after t.                        *)
C2_TickAtOrBefore ==
    op.name = "get_tick_at" =>
        LET t == op.start
        IN  /\ (ret = None) <=>
                  (cache = << >> \/ \A i \in 1 .. Len(cache) : cache[i].timestamp > t)
            /\ ret # None =>
                  /\ ret[1].timestamp <= t
                  /\ \E i \in 1 .. Len(cache) :
                        /\ cache[i] = ret[1]
                        /\ \A j \in (i + 1) .. Len(cache) : cache[j].timestamp > t

C2_Witness ==
    /\ op.name = "get_tick_at"
    /\ ret # None
    /\ Len(cache) >= 2
    /\ \E j \in 1 .. Len(cache) : cache[j].timestamp > op.start

(* C3: when the window is empty or does not cover t, get_tick_at(t) makes    *)
(* one store read, for [t - 30 min, t + 2 h], and the new window holds only  *)
(* ticks of that read.                                                      *)
C3_ReloadReplacesWindow ==
    [][(op'.name = "get_tick_at" /\ ~Covered(op'.start)) =>
          LET lo == op'.start - 1800
              hi == op'.start + 7200
          IN  /\ reads' = << <<lo, hi>> >>
              /\ \A i \in 1 .. Len(cache') :
                    lo <= cache'[i].timestamp /\ cache'[i].timestamp <= hi
              /\ IsSubBag(cache', InRange(StoreRows, lo, hi))]_vars

C3_Witness ==
    /\ op.name = "get_tick_at"
    /\ reads = << <<op.start - 1800, op.start + 7200>> >>
    /\ cache # << >>
    /\ \E i \in 1 .. Len(StoreRows) : StoreRows[i].timestamp < op.start - 1800

(* C4: when the window is non-empty and covers t, get_tick_at(t) reads       *)
(* nothing from the store and leaves the window as it is.                   *)
C4_CoveredLookupReadsNothing ==
    [][(op'.name = "get_tick_at" /\ Covered(op'.start)) =>
          /\ reads' = << >>
          /\ chunks_read' = {}
          /\ UNCHANGED <<cache, cache_cols, cache_start, cache_end>>]_vars

C4_Witness ==
    /\ op.name = "get_tick_at"
    /\ reads = << >>
    /\ Covered(op.start)
    /\ ret # None

(* C5: whenever get_ticks_range returns on the partitioned backend, it       *)
(* returns the same ticks in the same order as the SQLite backend does over *)
(* a table holding the same ticks, for every start, end, limit and          *)
(* cache_size.                                                              *)
C5_BackendEquivalence ==
    (~UsesSqlite /\ op.name = "get_ticks_range" /\ exc = "none") =>
        ret = SqlQueryOn(Flatten(chunks), op.start, op.end, op.limit)

(* C6: a partitioned read for [start, end] opens exactly the chunks whose    *)
(* descriptor has start_timestamp <= end and end_timestamp >= start.        *)
C6_ReadsExactlyOverlappingChunks ==
    (~UsesSqlite /\ reads # << >>) =>
        chunks_read = {i \in 1 .. Len(chunks) :
                          /\ chunks[i][1].timestamp <= reads[1][2]
                          /\ chunks[i][Len(chunks[i])].timestamp >= reads[1][1]}

C6_Witness ==
    /\ ~UsesSqlite
    /\ reads # << >>
    /\ Len(chunks) >= 3
    /\ Cardinality(chunks_read) = 2

(* C7: a partitioned range query over the shared boundary instant of two     *)
(* adjacent chunks reads both chunks and returns one sequence, sorted by    *)
(* timestamp, in which no tick appears twice.                               *)
C7_BoundaryResultDeduplicated ==
    (~UsesSqlite /\ op.name = "get_ticks_range") =>
        \A i \in 1 .. Len(chunks) - 1 :
            (/\ ChunkEnd(chunks[i]) = ChunkStart(chunks[i + 1])
             /\ op.start <= ChunkEnd(chunks[i])
             /\ ChunkEnd(chunks[i]) <= op.end) =>
                /\ {i, i + 1} \subseteq chunks_read
                /\ IsSorted(ret)
                /\ \A j, k \in 1 .. Len(ret) : j # k => ret[j] # ret[k]

(* C8: the window never holds more than cache_size ticks, and after a        *)
(* refill for [start, end] it holds the earliest min(cache_size, n) of the  *)
(* n store ticks in [start, end].                                           *)
C8_WindowBounded ==
    /\ Len(cache) <= cache_size
    /\ Refilled =>
          LET inr == InRange(StoreRows, reads[1][1], reads[1][2])
              k == Min2(cache_size, Len(inr))
          IN  /\ Len(cache) = k
              /\ \A i \in 1 .. k : cache[i].timestamp = inr[i].timestamp
              /\ IsSubBag(cache, inr)

C8_Witness ==
    /\ Refilled
    /\ Len(cache) = cache_size
    /\ Len(InRange(StoreRows, reads[1][1], reads[1][2])) > cache_size

(* C21: on both backends a query whose range intersects no data is not an  *)
(* error: get_ticks_range(start, end) returns an empty result, and           *)
(* get_tick_at(t), when the range it loads holds no tick, returns None; and   *)
(* neither raises.                                                          *)
C21_EmptyResultNotError ==
    /\ (op.name = "get_ticks_range" /\ StoreEmptyIn(op.start, op.end)) =>
          (exc = "none" /\ ret = << >>)
    /\ (op.name = "get_tick_at" /\ reads # << >> /\ StoreEmptyIn(reads[1][1], reads[1][2])) =>
          (exc = "none" /\ ret = None)

(* C22: if the store read performed by a cache refill fails, the error      *)
(* propagates to the caller of that operation and the cache window (ticks,  *)
(* _cache_start, _cache_end) is exactly what it was before the call; the    *)
(* aggregator state is likewise untouched.                                  *)
C22_FailedRefillKeepsWindow ==
    [][exc' = "StoreError" =>
        /\ cache' = cache
        /\ cache_cols' = cache_cols
        /\ cache_start' = cache_start
        /\ cache_end' = cache_end
        /\ builderVars' = builderVars]_vars

C22_Witness ==
    /\ exc = "StoreError"
    /\ op.name = "get_tick_at"
    /\ ~UsesSqlite
    /\ chunks_read # {}
    /\ cache # << >>
    /\ ~Covered(op.start)

(* C26: on a partitioned backend get_ticks_range resolves the range against *)
(* the chunk files without going through the point-cache window: the cache  *)
(* window (ticks, _cache_start, _cache_end) is the same after the call as   *)
(* before it.                                                               *)
C26_RangeLeavesWindowAlone ==
    [][(op'.name = "get_ticks_range" /\ ~UsesSqlite) =>
          /\ cache' = cache
          /\ cache_start' = cache_start
          /\ cache_end' = cache_end]_vars

(* C27: get_tick_at(t) for t earlier than the store's minimum timestamp     *)
(* returns None without raising, whatever window the cache held before the  *)
(* call.                                                                    *)
C27_BeforeStoreIsNone ==
    (/\ op.name = "get_tick_at"
     /\ StoreRows # << >>
     /\ op.start < SeqMin(StoreRows)) =>
        (ret = None /\ exc = "none")

C27_Witness ==
    /\ op.name = "get_tick_at"
    /\ StoreRows # << >>
    /\ op.start < SeqMin(StoreRows)
    /\ ret = None
    /\ cache # << >>
    /\ ~UsesSqlite

(* C32: whenever the store holds a tick with timestamp in [t - 30 min, t],  *)
(* get_tick_at(t) returns a store tick that carries the latest store        *)
(* timestamp <= t, from every cache state and for every cache_size >= 1.    *)
C32_PointLookupFindsLatest ==
    (/\ op.name = "get_tick_at"
     /\ ~StoreEmptyIn(op.start - LookBack, op.start)) =>
        /\ exc = "none"
        /\ ret # None
        /\ \E i \in 1 .. Len(StoreRows) : StoreRows[i] = ret[1]
        /\ ret[1].timestamp <= op.start
        /\ \A i \in 1 .. Len(StoreRows) :
              StoreRows[i].timestamp <= op.start => StoreRows[i].timestamp <= ret[1].timestamp

(* C33: after get_tick_at(t) has returned a tick, t lies inside the cache   *)
(* window (_cache_start <= t <= _cache_end), so the coverage test of an     *)
(* immediately repeated get_tick_at(t) asks for no store read.              *)
C33_ReturnedTickLeavesTCovered ==
    (op.name = "get_tick_at" /\ ret # None) =>
        /\ cache_start.kind = "ts"
        /\ cache_end.kind = "ts"
        /\ cache_start.v <= op.start
        /\ op.start <= cache_end.v
        /\ ~NeedsReload(op.start)

(* The store behind a loader whose construction succeeded. *)
Backing == IF db_path = "db" THEN table ELSE Flatten(chunks)

(* C23: constructing a TickDataLoader when neither db_path names an         *)
(* existing database nor csv_dir names an existing directory raises an      *)
(* error from the constructor, so no loader is obtained.                    *)
C23_InvalidPathsRaise ==
    (op.name = "init" /\ db_path # "db" /\ csv_dir # "dir") =>
        (exc = "ValueError" /\ ~Constructed)

C23_Witness ==
    /\ op.name = "init"
    /\ exc = "ValueError"
    /\ db_path = "missing"
    /\ csv_dir = "none"
    /\ table # << >>

(* C24: after successful construction over a store that holds at least one  *)
(* tick, start_time, end_time and total_records are the store's minimum     *)
(* timestamp, maximum timestamp and tick count, from the metadata when it   *)
(* is present and otherwise (any metadata key absent) by aggregation; and   *)
(* no successfully constructed loader has unset bounds.                     *)
C24_BoundsAreStoreExtent ==
    (op.name = "init" /\ exc = "none") =>
        /\ data_start.kind = "ts"
        /\ data_end.kind = "ts"
        /\ Backing # << >> =>
              /\ data_start = TS(SeqMin(Backing))
              /\ data_end = TS(SeqMax(Backing))
              /\ total_records = Len(Backing)

(* C25: get_available_dates returns exactly the set of calendar dates on    *)
(* which the store holds at least one tick, on both backends; for a         *)
(* partitioned store every date on which some chunk holds a tick is         *)
(* included, not only the date of each chunk's first tick.                  *)
C25_AvailableDatesAreStoreDates ==
    (op.name = "get_available_dates" /\ exc = "none") =>
        {ret[i] : i \in 1 .. Len(ret)} = {DateOf(Backing[i].timestamp) : i \in 1 .. Len(Backing)}

(* C34: the backend chosen at construction (SQLite when db_path exists,     *)
(* otherwise the CSV directory) is the backend every later operation is     *)
(* routed to; a loader initialised from csv_dir because db_path does not    *)
(* exist never reads from db_path, so its get_available_dates succeeds.     *)
C34_BackendFixedAtConstruction ==
    Constructed =>
        /\ UsesSqlite <=> (InitializeBranch(db_path, csv_dir) = "sqlite")
        /\ (op.name = "get_available_dates" /\ InitializeBranch(db_path, csv_dir) = "csv") =>
              exc = "none"

----------------------------------------------------------------------------
(* Properties of stream_ticks, for one uninterrupted run of the generator. *)

Yielded == Flatten(yielded)

(* The generator has been resumed at least once, so end is resolved. *)
Started == gen.pc \in {"yield", "yield_clip", "done"}

(* C16: no yielded batch contains a tick whose timestamp is earlier than a   *)
(* tick of any previously yielded batch, and every yielded tick has a       *)
(* timestamp in [start, end].                                               *)
C16_StreamAscendingWithinRange ==
    /\ \A i, j \in 1 .. Len(yielded) : i < j =>
          \A x \in 1 .. Len(yielded[i]), y \in 1 .. Len(yielded[j]) :
              yielded[i][x].timestamp <= yielded[j][y].timestamp
    /\ \A k \in 1 .. Len(Yielded) :
          /\ gen.end.kind = "ts"
          /\ gen.start <= Yielded[k].timestamp
          /\ Yielded[k].timestamp <= gen.end.v

C16_Witness ==
    /\ gen.pc = "done"
    /\ Len(yielded) >= 2
    /\ Len(reads) = 0
    /\ \E i \in 1 .. Len(StoreRows) : StoreRows[i].timestamp < gen.start
    /\ Yielded[1].timestamp < Yielded[Len(Yielded)].timestamp

(* C17: stream_ticks for start = 09:30:00, end = 09:35:00 with batch_size   *)
(* 60 over a store holding one tick per second yields 5 batches of 60      *)
(* ticks and then a sixth batch holding the tick stamped 09:35:00 (both    *)
(* ends of the range are inclusive, 301 ticks), and then terminates.       *)
C17_ScenarioYieldsSixBatches ==
    gen.pc = "done" =>
        /\ exc = "StopIteration"
        /\ Len(yielded) = 6
        /\ \A i \in 1 .. 5 : Len(yielded[i]) = 60
        /\ yielded[6] = << Row(ScenarioEnd, 100) >>
        /\ \A k \in 1 .. Len(Yielded) : Yielded[k].timestamp = ScenarioStart + k - 1

(* C17 as stated: the stream yields exactly 5 batches of 60 ticks each and  *)
(* then terminates.                                                         *)
C17_ScenarioYieldsFiveBatches ==
    gen.pc = "done" =>
        /\ Len(yielded) = 5
        /\ \A i \in 1 .. Len(yielded) : Len(yielded[i]) = 60

C17_Witness ==
    /\ gen.pc = "done"
    /\ Len(yielded) = 6
    /\ Len(chunks) = 2
    /\ ChunkEnd(chunks[1]) > ScenarioStart
    /\ ChunkEnd(chunks[1]) < ScenarioEnd

(* The store's ticks with a timestamp in [start, end] of the running stream. *)
StoreInStream ==
    SelectSeq(StoreRows, LAMBDA r : gen.start <= r.timestamp /\ r.timestamp <= gen.end.v)

(* The first store tick at or after start lies within 60 minutes of start,  *)
(* and no two consecutive store ticks in [start, end] are more than 60      *)
(* minutes apart.                                                           *)
NoHole ==
    /\ \E i \in 1 .. Len(StoreRows) :
          /\ gen.start <= StoreRows[i].timestamp
          /\ StoreRows[i].timestamp <= gen.start + BufferDuration
    /\ \A i \in 1 .. Len(StoreInStream) - 1 :
          StoreInStream[i + 1].timestamp - StoreInStream[i].timestamp <= BufferDuration

(* C18: when start < end and the store has no hole of more than 60 minutes  *)
(* in [start, end], the concatenation of all yielded batches is the store's *)
(* ticks with start <= timestamp <= end in ascending order, each exactly    *)
(* once, for every batch_size and cache_size and also when several ticks    *)
(* share a timestamp.                                                       *)
C18_StreamYieldsEveryTickOnce ==
    (/\ gen.pc = "done"
     /\ gen.end.kind = "ts"
     /\ gen.start < gen.end.v
     /\ NoHole) =>
        /\ IsSorted(Yielded)
        /\ IsSubBag(Yielded, StoreInStream)
        /\ IsSubBag(StoreInStream, Yielded)

(* The batch sequences of a run of the generator from frame g in which     *)
(* nothing else touches the loader: each request finds the window the       *)
(* previous request left (w). k bounds the number of requests.              *)
RECURSIVE RunFrom(_, _, _)
RunFrom(g, w, k) ==
    IF k = 0 \/ g.pc \notin {"created", "yield", "yield_clip"}
    THEN {<< >>}
    ELSE UNION {IF o.exc = "none"
                THEN {<<o.ret>> \o r : r \in RunFrom(o.gen, o.window, k - 1)}
                ELSE {<< >>} : o \in ResumeIn(g, w)}

UninterruptedRuns ==
    RunFrom(Frame("created", gen.start, gen.end, gen.bs, NoneTS, 0, 0, NoneTS),
            CurrentWindow, MaxYields + 2)

IsPrefix(s, t) == Len(s) <= Len(t) /\ SubSeq(t, 1, Len(s)) = s

(* C31: when the consumer calls get_tick_at or get_ticks_range on the       *)
(* loader between two requests to an active stream_ticks generator, the     *)
(* generator still yields the batches of an uninterrupted run: what it has  *)
(* yielded so far starts such a run, and when it has ended it is one.       *)
C31_InterleavedCallsDoNotDisturbStream ==
    Started =>
        /\ \E r \in UninterruptedRuns : IsPrefix(yielded, r)
        /\ gen.pc = "done" => yielded \in UninterruptedRuns

(* C35: every batch yielded by stream_ticks holds exactly batch_size ticks, *)
(* except possibly the last batch of the whole stream.                      *)
C35_BatchesAreFull ==
    \A i \in 1 .. Len(yielded) - 1 : Len(yielded[i]) = gen.bs

(* C20: when the refill for [current, min(current + 60 min, end)] returns   *)
(* no ticks the stream terminates without yielding any further batch, even  *)
(* if the store holds ticks later than current + 60 min and <= end.         *)
C20_EmptyRefillEndsStream ==
    [][(/\ op'.name = "stream_next"
        /\ reads' # << >>
        /\ StoreEmptyIn(reads'[1][1], reads'[1][2])) =>
            /\ gen'.pc = "done"
            /\ exc' = "StopIteration"
            /\ ret' = None
            /\ yielded' = yielded]_vars

C20_Witness ==
    /\ gen.pc = "done"
    /\ Len(yielded) >= 1
    /\ reads # << >>
    /\ StoreEmptyIn(reads[1][1], reads[1][2])
    /\ reads[1][2] = reads[1][1] + BufferDuration
    /\ \E i \in 1 .. Len(StoreRows) :
          StoreRows[i].timestamp > reads[1][2] /\ StoreRows[i].timestamp <= gen.end.v

(* C19: a consumer that keeps requesting batches reaches the end of the     *)
(* stream after finitely many batches: the cursor strictly increases at     *)
(* every refill, and no refill happens once the cursor has reached end.     *)
C19_StreamTerminates ==
    /\ (gen.pc = "created") ~> (gen.pc = "done")
    /\ [](/\ \A k \in 1 .. Len(cursors) - 1 : cursors[k] < cursors[k + 1]
          /\ \A k \in 1 .. Len(cursors) : gen.end.kind = "ts" /\ cursors[k] < gen.end.v)

C19_Witness ==
    /\ gen.pc = "done"
    /\ exc = "StopIteration"
    /\ reads = << >>
    /\ cache_size = 1
    /\ Len(yielded) = 3
    /\ Len(cursors) = 3
    /\ gen.current.v >= gen.end.v

----------------------------------------------------------------------------
(* Properties of the builder. *)

Candles == completed_candles \o current_candle

(* C9: after any sequence of add_tick calls, every sealed bar and the open   *)
(* bar have low <= open <= high and low <= close <= high.                   *)
C9_BarOrdering ==
    \A i \in 1 .. Len(Candles) :
        /\ Candles[i].low <= Candles[i].open /\ Candles[i].open <= Candles[i].high
        /\ Candles[i].low <= Candles[i].close /\ Candles[i].close <= Candles[i].high

C9_Witness ==
    /\ Len(completed_candles) >= 1
    /\ completed_candles[1].tick_count >= 3
    /\ completed_candles[1].low < completed_candles[1].close
    /\ completed_candles[1].close < completed_candles[1].high
    /\ \E j \in 1 .. Len(ingested) - 1 : ingested[j].timestamp > ingested[j + 1].timestamp

(* C10: every sealed bar's tick_count is the number of ingested ticks whose  *)
(* bucket (_get_candle_start of the timestamp) is the bar's bucket_start.   *)
C10_TickCountIsBucketCount ==
    \A i \in 1 .. Len(completed_candles) :
        completed_candles[i].tick_count =
            Cardinality({j \in 1 .. Len(ingested) :
                            CandleStart(ingested[j].timestamp) = completed_candles[i].timestamp})

(* The step is an add_tick call; Fed is its tick. *)
AddedTick == Len(ingested') = Len(ingested) + 1
Fed == ingested'[Len(ingested')]

(* The bucket of a timestamp: the timestamp rounded down to a multiple of   *)
(* the timeframe within its day.                                            *)
BucketOf(t) == (t - (t % DaySeconds)) + ((t % DaySeconds) \div tf_seconds) * tf_seconds

(* The bar a tick opens. *)
Opened(tick) ==
    [timestamp |-> BucketOf(tick.timestamp), open |-> tick.price, high |-> tick.price,
     low |-> tick.price, close |-> tick.price, volume |-> tick.volume, tick_count |-> 1]

(* The last n entries of s. *)
LastN(s, n) == IF Len(s) > n THEN SubSeq(s, Len(s) - n + 1, Len(s)) ELSE s

(* C11: once a bar is appended to the completed history none of its fields  *)
(* changes under any later add_tick: the history after the call is the     *)
(* history before it, less evicted oldest bars, plus at most one new bar.   *)
C11_SealedBarsImmutable ==
    [][AddedTick =>
        \E k \in 0 .. Len(completed_candles) :
            LET kept == SubSeq(completed_candles, k + 1, Len(completed_candles))
            IN  \/ completed_candles' = kept
                \/ /\ Len(completed_candles') = Len(kept) + 1
                   /\ SubSeq(completed_candles', 1, Len(kept)) = kept]_vars

C11_Witness ==
    /\ Len(completed_candles) = 500
    /\ completed_candles[1].timestamp > LastFed - 60 * 500
    /\ current_candle # None
    /\ current_candle[1].tick_count >= 2
    /\ b_ret = None

(* C12: the completed history holds at most 500 sealed bars, always the     *)
(* most recently sealed ones in sealing order, and get_candles returns at   *)
(* most 500 sealed bars plus the open one.                                  *)
C12_HistoryCapped ==
    /\ [](/\ Len(completed_candles) <= 500
          /\ snapshot # None =>
                \/ snapshot[1].rows = completed_candles
                \/ snapshot[1].rows = completed_candles \o current_candle)
    /\ [][AddedTick =>
            completed_candles' =
                IF current_candle # None /\ BucketOf(Fed.timestamp) > current_candle[1].timestamp
                THEN LastN(Append(completed_candles, current_candle[1]), 500)
                ELSE completed_candles]_vars

C12_Witness ==
    /\ Len(completed_candles) = 500
    /\ completed_candles[1].timestamp = LastFed - 60 * 500 + 120
    /\ completed_candles[500].timestamp = LastFed + 60
    /\ snapshot # None
    /\ Len(snapshot[1].rows) = 501

(* C13: a tick whose bucket is strictly after the open bar's bucket appends *)
(* the previous open bar, with the values it had before the call, to the    *)
(* history, returns it as the completed candle and opens a new bar with     *)
(* bucket_start = the tick's bucket, open = high = low = close = price,     *)
(* volume = the tick's volume and tick_count = 1; without an open bar the   *)
(* call opens such a bar and returns None; in the same-bucket case it       *)
(* returns None.                                                            *)
C13_Rollover ==
    [][AddedTick =>
        LET b == BucketOf(Fed.timestamp)
        IN  /\ (current_candle # None /\ b > current_candle[1].timestamp) =>
                  /\ b_ret' = current_candle
                  /\ completed_candles' = LastN(Append(completed_candles, current_candle[1]), 500)
                  /\ current_candle' = << Opened(Fed) >>
            /\ current_candle = None =>
                  /\ b_ret' = None
                  /\ completed_candles' = completed_candles
                  /\ current_candle' = << Opened(Fed) >>
            /\ (current_candle # None /\ b = current_candle[1].timestamp) =>
                  b_ret' = None]_vars

C13_Witness ==
    /\ b_ret # None
    /\ b_ret[1].tick_count >= 2
    /\ Len(completed_candles) >= 2
    /\ completed_candles[Len(completed_candles)] = b_ret[1]
    /\ current_candle[1].tick_count = 1
    /\ current_candle[1].open # b_ret[1].close

(* C14: after n >= 1 ticks that all fall in one bucket are fed to a fresh   *)
(* builder, no bar has been sealed and the open bar has that bucket as      *)
(* bucket_start, open = the first price, high = the maximum price, low =    *)
(* the minimum price, close = the last price, volume = the sum of the       *)
(* volumes and tick_count = n.                                              *)
C14_OneBucketOneOpenBar ==
    (/\ ingested # << >>
     /\ \A i \in 1 .. Len(ingested) :
           BucketOf(ingested[i].timestamp) = BucketOf(ingested[1].timestamp)) =>
        /\ completed_candles = << >>
        /\ current_candle # None
        /\ current_candle[1].timestamp = BucketOf(ingested[1].timestamp)
        /\ current_candle[1].open = ingested[1].price
        /\ current_candle[1].close = ingested[Len(ingested)].price
        /\ \A i \in 1 .. Len(ingested) :
              /\ ingested[i].price <= current_candle[1].high
              /\ ingested[i].price >= current_candle[1].low
        /\ \E i \in 1 .. Len(ingested) : ingested[i].price = current_candle[1].high
        /\ \E i \in 1 .. Len(ingested) : ingested[i].price = current_candle[1].low
        /\ current_candle[1].volume = SumVolume(ingested)
        /\ current_candle[1].tick_count = Len(ingested)

C14_Witness ==
    /\ Len(ingested) >= 3
    /\ \A i \in 1 .. Len(ingested) :
          BucketOf(ingested[i].timestamp) = BucketOf(ingested[1].timestamp)
    /\ ingested[1].timestamp < ingested[Len(ingested)].timestamp
    /\ completed_candles = << >>
    /\ current_candle[1].low < current_candle[1].open
    /\ current_candle[1].close < current_candle[1].high

(* C15: a tick whose bucket is strictly before the open bar's bucket is     *)
(* applied as an in-place update of the open bar: nothing is sealed, no new *)
(* bar is opened, bucket_start and the history are unchanged and the call   *)
(* returns None.                                                            *)
C15_BackwardTickUpdatesOpenBar ==
    [][(/\ AddedTick
        /\ current_candle # None
        /\ BucketOf(Fed.timestamp) < current_candle[1].timestamp) =>
            /\ current_candle' =
                  << [timestamp |-> current_candle[1].timestamp,
                      open |-> current_candle[1].open,
                      high |-> Max2(current_candle[1].high, Fed.price),
                      low |-> Min2(current_candle[1].low, Fed.price),
                      close |-> Fed.price,
                      volume |-> current_candle[1].volume + Fed.volume,
                      tick_count |-> current_candle[1].tick_count + 1] >>
            /\ current_candle_start' = current_candle_start
            /\ completed_candles' = completed_candles
            /\ b_ret' = None]_vars

C15_Witness ==
    /\ ingested # << >>
    /\ current_candle # None
    /\ BucketOf(ingested[Len(ingested)].timestamp) < current_candle[1].timestamp
    /\ current_candle[1].close = ingested[Len(ingested)].price
    /\ current_candle[1].tick_count = 2
    /\ Len(completed_candles) = 1

(* C28: for every interval of at least one second _get_candle_start(ts)     *)
(* returns the instant on the date of ts whose seconds since midnight are   *)
(* the largest multiple of the interval not exceeding those of ts; so       *)
(* bucket_start <= ts < bucket_start + interval, and of two calls the one   *)
(* with the earlier ts returns the earlier or the same bucket.              *)
C28_BucketIsFloorWithinDay ==
    [][b_op'.name = "_get_candle_start" =>
          LET ts == b_op'.timestamp
              st == start_ret'[1]
              midnight == ts - (ts % DaySeconds)
          IN  /\ tf_seconds >= 1
              /\ midnight <= st
              /\ st < midnight + DaySeconds
              /\ (st - midnight) % tf_seconds = 0
              /\ st - midnight <= ts - midnight
              /\ (ts - midnight) - (st - midnight) < tf_seconds
              /\ st <= ts
              /\ ts < st + tf_seconds
              /\ b_op.name = "_get_candle_start" =>
                    /\ b_op.timestamp <= ts => start_ret[1] <= st
                    /\ ts <= b_op.timestamp => st <= start_ret[1]]_vars

C28_Witness ==
    /\ b_op.name = "_get_candle_start"
    /\ tf_seconds = 420
    /\ b_op.timestamp = DaySeconds + 61
    /\ start_ret = Some(DaySeconds)

(* C29: after reset() the builder has no open bar and an empty history and  *)
(* keeps its timeframe, which is the state of a newly constructed builder   *)
(* of that timeframe; the next add_tick opens a bar from its tick alone and *)
(* returns no completed bar, and the next get_candles returns no bar.       *)
C29_ResetIsFresh ==
    [][/\ b_op'.name = "reset" =>
             /\ current_candle' = None
             /\ current_candle_start' = None
             /\ completed_candles' = << >>
             /\ tf_seconds' = tf_seconds
       /\ (b_op.name = "reset" /\ b_op'.name = "add_tick") =>
             /\ b_ret' = None
             /\ current_candle' = Some(Opened(Fed))
             /\ current_candle_start' = Some(BucketOf(Fed.timestamp))
             /\ completed_candles' = << >>
       /\ (b_op.name = "reset" /\ b_op'.name = "get_candles") =>
             snapshot' = Some(DataFrame(<< >>))]_vars

C29_Witness ==
    /\ b_op.name = "reset"
    /\ b_op.held = max_candles
    /\ completed_candles = << >>
    /\ current_candle = None

(* C30: get_candles(include_current) returns the sealed history in sealing  *)
(* order, followed by the open bar if and only if include_current is true   *)
(* and a bar is open, and leaves the history and the open bar unchanged.    *)
C30_SnapshotIsHistoryPlusOpen ==
    [][b_op'.name = "get_candles" =>
          /\ snapshot' # None
          /\ snapshot'[1].rows =
                completed_candles \o (IF b_op'.include_current /\ current_candle # None
                                      THEN <<current_candle[1]>> ELSE << >>)
          /\ completed_candles' = completed_candles
          /\ current_candle' = current_candle
          /\ current_candle_start' = current_candle_start
          /\ tf_seconds' = tf_seconds]_vars

C30_Witness ==
    /\ b_op.name = "get_candles"
    /\ ~b_op.include_current
    /\ current_candle # None
    /\ Len(completed_candles) = max_candles
    /\ snapshot = Some(DataFrame(completed_candles))

(* C36: after any sequence of add_tick calls, in any timestamp order, the   *)
(* bucket_start values of the sealed history are strictly increasing and    *)
(* all strictly less than the open bar's, and an add_tick never moves the   *)
(* open bar to an earlier bucket.                                           *)
C36_BucketStartsIncrease ==
    [][/\ \A i, j \in 1 .. Len(Candles') : i < j => Candles'[i].timestamp < Candles'[j].timestamp
       /\ current_candle' # None => current_candle'[1].timestamp = current_candle_start'[1]
       /\ (AddedTick /\ current_candle # None) =>
             current_candle_start'[1] >= current_candle_start[1]]_vars

C36_Witness ==
    /\ Len(completed_candles) >= 2
    /\ current_candle # None
    /\ \E j \in 1 .. Len(ingested) - 1 : ingested[j].timestamp > ingested[j + 1].timestamp

RECURSIVE SumTickCount(_)
SumTickCount(s) == IF s = << >> THEN 0 ELSE Head(s).tick_count + SumTickCount(Tail(s))

(* C37: after n add_tick calls since construction or reset, with no bar     *)
(* evicted from the history, the tick_counts of the sealed bars and the     *)
(* open bar add up to n and their volumes to the volume of the ticks fed.   *)
C37_TicksAndVolumeConserved ==
    Len(completed_candles) < max_candles =>
        /\ SumTickCount(Candles) = Len(ingested)
        /\ SumVolume(Candles) = SumVolume(ingested)

C37_Witness ==
    /\ Len(ingested) = MaxIngest
    /\ Len(completed_candles) >= 1
    /\ completed_candles[1].tick_count >= 2
    /\ current_candle[1].tick_count >= 2

----------------------------------------------------------------------------
(* Properties of the playback loop. *)

(* C38: between two replacements of the aggregator, the ticks the playback   *)
(* loop passes to add_tick have strictly increasing timestamps, whatever the *)
(* sequence of controls and refreshes.                                       *)
C38_IngestedTimestampsIncrease ==
    \A j \in 1 .. Len(ingested) - 1 : ingested[j].timestamp < ingested[j + 1].timestamp

(* The end the position is held at: selected_end_time, or the store's       *)
(* end_time when none is selected (line 395).                                *)
EndOf(s) == IF s.selected_end_time.kind = "ts" THEN s.selected_end_time.v ELSE data_end.v

(* What the assignments of a playback update do to the position and to     *)
(* is_playing (lines 393-398).                                               *)
UpdateStep ==
    LET ct == session_state.current_timestamp.v
        end == EndOf(session_state)
    IN  /\ run'.pc = "bounds" =>
              session_state'.current_timestamp.v = ct + session_state.playback_speed
        /\ (run.pc = "bounds" /\ ct > end) =>
              (session_state'.current_timestamp.v = end /\ run'.pc = "stop")
        /\ (run.pc = "bounds" /\ ct <= end) =>
              /\ session_state'.current_timestamp.v = ct
              /\ session_state'.is_playing
              /\ run'.pc = "lookup"
        /\ run.pc = "stop" => (~session_state'.is_playing /\ run'.pc = "lookup")

(* C39: every playback update of chart_fragment advances the position by     *)
(* playback_speed; after its bounds check, for the rest of the update and    *)
(* once it is over, the position is at most end (selected_end_time, or the   *)
(* loader's end_time when none is selected); when the advance passed end the *)
(* position is set to end and is_playing becomes false, otherwise the        *)
(* position stays advanced and playback goes on; playback that is left       *)
(* running eventually stops.                                                 *)
C39_PlaybackStopsAtEnd ==
    /\ []((\/ run.pc \in {"stop", "lookup", "feed", "candles", "render"}
           \/ run.pc = "idle" /\ op.name = "get_tick_at") =>
             session_state.current_timestamp.v <= EndOf(session_state))
    /\ [][UpdateStep]_vars
    /\ (session_state.is_playing ~> ~session_state.is_playing)

(* Playback has run over two ticks, was stopped by the bounds check with the *)
(* position set to end, and the update is over.                              *)
C39_Witness ==
    /\ run.pc = "idle"
    /\ op.name = "get_tick_at"
    /\ ~session_state.is_playing
    /\ session_state.current_timestamp.v = EndOf(session_state)
    /\ Len(ingested) >= 2

====
